---- MODULE Spec2Model ----
(***************************************************************************)
(* Holly_RDiQ5000 classroom noise monitor (Beta4_20260106153844.ino).      *)
(*                                                                         *)
(* Sound levels and thresholds are modelled in tenths of a decibel         *)
(* (49.0 dB = 490), so the firmware's margins 0.7, 0.9, 1.0, 1.2, 1.5 and  *)
(* 8.0 dB are the integers 7, 9, 10, 12, 15 and 80.  Arithmetic on levels  *)
(* is exact: the firmware's float rounding (one unit in the last place,    *)
(* visible only when a level equals a threshold plus or minus a margin     *)
(* exactly) is not modelled.                                               *)
(*                                                                         *)
(* Clock values (millis()) are counted in units of 8 ms, so that the       *)
(* 32-bit millisecond counter, which wraps at 2^32 ms, is a counter that   *)
(* wraps at 2^29 units; Ms(x) converts a duration written in milliseconds. *)
(* Every duration the loop compares is a multiple of 8 ms.                 *)
(***************************************************************************)
EXTENDS Integers, Sequences, FiniteSets, TLC

VARIABLES
  yearBand,       \* char yearBand[16]
  ACTIVE_TH,      \* Thresholds ACTIVE_TH
  useTimetable,   \* bool useTimetable
  timetable,      \* the six strings t_day_start .. t_day_end
  nowMs,          \* millis() as read by the last loop()
  running,        \* FALSE once loop() has called ESP.restart()
  lastButtonState, buttonPressStart, wipeTriggered, lastToggleAt,
  deviceMode, hollyHopEndAt, hopStage, hopPendingExit, hopStageUntil,
  inSleepMode, silenceStart,
  lastWs, lessonStartMs,
  avgDB,          \* float avgDB of the last loop() (calculateAverage())
  quietStartMs, rewardStartMs, rewardShowing,
  rewardActiveForLog, rewardLogUntilMs,
  rewardCooldownUntilMs, penaltyUntilMs, needsResetAboveGood,
  obs,            \* history: what the loop() calls so far did
  feedStartMs,    \* history: when the constant quiet feed began (-1: no feed)
  lastSampleTime, hasNewSampleForLed,
  ledDB,          \* static float ledDB, kept to a tenth of a dB
  currentZone,    \* ColorZone currentZone
  lastPostTime, internetConnected,
  ioObs,          \* history: microphone samples, smoothing updates, records
  roomCalEnabled, roomCalComplete, roomCalStartEpoch,
  calCount, calMean, calM2, calMinDb, calMaxDb,
  CAL_TH,         \* Thresholds CAL_TH
  lastCalSampleMs,
  preferences,    \* the keys of the "classroom" namespace in flash
  calObs,         \* history: what room calibration did on the last step
  dbHistory,      \* float dbHistory[AVG_SAMPLE_COUNT], slots 0 .. N-1
  currentIndex,
  recorded,       \* history: the finite samples recorded, oldest first
  micCall,        \* history: the last argument of updateRollingAverage
  statCall,       \* harness: the calls of updateRoomCalibration made so far
  schedCall,      \* harness: the last call of getWindowState
  guardCall,      \* harness: one call of applyGuardrails (argument, band, result)
  hysCall         \* harness: applyStickyHysteresis applied again at one value

thVars     == <<yearBand, ACTIVE_TH>>
schedVars  == <<useTimetable, timetable>>
progVars   == <<thVars, schedVars>>
buttonVars == <<lastButtonState, buttonPressStart, wipeTriggered, lastToggleAt>>
hopVars    == <<deviceMode, hollyHopEndAt, hopStage, hopPendingExit,
                hopStageUntil>>
sleepVars  == <<inSleepMode, silenceStart>>
rewardVars == <<quietStartMs, rewardStartMs, rewardShowing, rewardActiveForLog,
                rewardLogUntilMs, rewardCooldownUntilMs, penaltyUntilMs,
                needsResetAboveGood>>
statVars   == <<calCount, calMean, calM2, calMinDb, calMaxDb>>
windowVars == <<roomCalEnabled, roomCalComplete, roomCalStartEpoch, CAL_TH,
                lastCalSampleMs, preferences, calObs>>
calVars    == <<windowVars, statVars>>
micVars    == <<dbHistory, currentIndex, recorded, micCall>>
ledVars    == <<lastSampleTime, hasNewSampleForLed, ledDB, currentZone>>
logVars    == <<lastPostTime, internetConnected>>
ioVars     == <<ledVars, logVars, ioObs>>
runVars    == <<nowMs, running, buttonVars, hopVars, sleepVars, lastWs,
                lessonStartMs, avgDB, rewardVars, obs, feedStartMs, ioVars>>
loopVars   == <<runVars, calVars, micVars, statCall>>
calls      == <<guardCall, hysCall, schedCall>>
vars       == <<progVars, loopVars, calls>>

NoCall == [done |-> FALSE]

(***************************************************************************)
(* The millisecond clock                                                   *)
(***************************************************************************)
Ms(x) == x \div 8

U32 == 65536 * 8192            \* 2^32 ms

Add32(a, b) == (a + b) % U32   \* unsigned long a + b

Sub32(a, b) == (a - b) % U32   \* unsigned long a - b

(***************************************************************************)
(* Enumerations                                                            *)
(***************************************************************************)
OFF      == "OFF"
LESSON   == "LESSON"
ASSEMBLY == "ASSEMBLY"
BREAK    == "BREAK"
LUNCH    == "LUNCH"
WindowState == {OFF, LESSON, ASSEMBLY, BREAK, LUNCH}

HIGH == "HIGH"
LOW  == "LOW"

MODE_NORMAL    == "MODE_NORMAL"
MODE_HOLLY_HOP == "MODE_HOLLY_HOP"

HOP_NONE     == "HOP_NONE"
HOP_ENTERING == "HOP_ENTERING"
HOP_EXITING  == "HOP_EXITING"

Z_GREEN == "Z_GREEN"
Z_AMBER == "Z_AMBER"
Z_DEEP  == "Z_DEEP"
Z_RED   == "Z_RED"
ColorZone == {Z_GREEN, Z_AMBER, Z_DEEP, Z_RED}

BOOT_STANDBY_MS == Ms(8000)
BASELINE_DB     == 350

NoObs == [branch |-> "none", granted |-> FALSE, rewards |-> 0,
          aboveSinceReward |-> FALSE, spikeAt |-> -1, penalisedAt |-> -1,
          streakWas |-> FALSE, lessonAt |-> -1]

NoIoObs == [sampled |-> FALSE, samples |-> 0, updates |-> 0,
            posted |-> FALSE, quiet_reward |-> FALSE,
            aboveAgo |-> -1, breakAgo |-> -1, noisyAgo |-> 0]

(***************************************************************************)
(* The globals of loop() as setup() leaves them: the static initialisers, *)
(* the baseline average of clearDBHistory() and lessonStartMs = millis().  *)
(***************************************************************************)
StaticInitialisers ==
  /\ running = TRUE
  /\ lastButtonState = HIGH /\ buttonPressStart = 0
  /\ wipeTriggered = FALSE /\ lastToggleAt = 0
  /\ deviceMode = MODE_NORMAL /\ hollyHopEndAt = 0 /\ hopStage = HOP_NONE
  /\ hopPendingExit = FALSE /\ hopStageUntil = 0
  /\ inSleepMode = FALSE /\ silenceStart = 0
  /\ quietStartMs = 0 /\ rewardStartMs = 0 /\ rewardShowing = FALSE
  /\ rewardActiveForLog = FALSE /\ rewardLogUntilMs = 0
  /\ rewardCooldownUntilMs = 0 /\ penaltyUntilMs = 0
  /\ needsResetAboveGood = FALSE
  /\ feedStartMs = -1
  /\ lastSampleTime = 0 /\ hasNewSampleForLed = FALSE
  /\ ledDB = BASELINE_DB /\ currentZone = Z_GREEN
  /\ lastPostTime = 0 /\ internetConnected = FALSE
  /\ ioObs = NoIoObs

PoweredOn ==
  /\ StaticInitialisers
  /\ nowMs = BOOT_STANDBY_MS
  /\ lastWs = OFF /\ lessonStartMs = BOOT_STANDBY_MS
  /\ avgDB = BASELINE_DB
  /\ obs = NoObs

(***************************************************************************)
(* Year bands and thresholds                                               *)
(***************************************************************************)
Bands == {"SEND", "RY1", "Y2Y3", "Y4Y6", "OTHER"}

Th(g, a, r) == [greenMax |-> g, amberMax |-> a, redWarnDb |-> r]

thresholdsForBand(band) ==
  CASE band = "RY1"  -> Th(500, 530, 560)
    [] band = "Y2Y3" -> Th(490, 520, 550)
    [] band = "Y4Y6" -> Th(460, 490, 510)
    [] band = "SEND" -> Th(520, 560, 600)
    [] OTHER         -> Th(460, 490, 510)

guardrailsForBand(band) ==
  CASE band = "SEND" -> [gMin |-> 420, gMax |-> 550, aMin |-> 460, aMax |-> 600, rMin |-> 500, rMax |-> 660]
    [] band = "RY1"  -> [gMin |-> 400, gMax |-> 520, aMin |-> 440, aMax |-> 560, rMin |-> 480, rMax |-> 600]
    [] band = "Y2Y3" -> [gMin |-> 380, gMax |-> 520, aMin |-> 420, aMax |-> 560, rMin |-> 460, rMax |-> 600]
    [] band = "Y4Y6" -> [gMin |-> 400, gMax |-> 540, aMin |-> 450, aMax |-> 580, rMin |-> 490, rMax |-> 620]
    [] OTHER         -> [gMin |-> 390, gMax |-> 520, aMin |-> 440, aMax |-> 560, rMin |-> 480, rMax |-> 600]

clampf(v, lo, hi) == IF v < lo THEN lo ELSE IF v > hi THEN hi ELSE v

GAP_GA == 20
GAP_AR == 20

\* mutant of normalizeThresholds: the red gap is taken from the amber value
\* before it was raised
normalizeThresholds_staleAmber(th) ==
  LET a == IF th.amberMax < th.greenMax + GAP_GA THEN th.greenMax + GAP_GA ELSE th.amberMax
      r == IF th.redWarnDb < th.amberMax + GAP_AR THEN th.amberMax + GAP_AR ELSE th.redWarnDb
  IN  Th(th.greenMax, a, r)

normalizeThresholds(th) ==
  LET a == IF th.amberMax < th.greenMax + GAP_GA THEN th.greenMax + GAP_GA ELSE th.amberMax
      r == IF th.redWarnDb < a + GAP_AR THEN a + GAP_AR ELSE th.redWarnDb
  IN  Th(th.greenMax, a, r)

applyGuardrails(th, band) ==
  LET gr == guardrailsForBand(band)
  IN  normalizeThresholds(Th(clampf(th.greenMax,  gr.gMin, gr.gMax),
                             clampf(th.amberMax,  gr.aMin, gr.aMax),
                             clampf(th.redWarnDb, gr.rMin, gr.rMax)))

(***************************************************************************)
(* The globals as their initializers leave them.                           *)
(***************************************************************************)
Str(a, b, c, d, e) == <<a, b, c, d, e>>

DefaultTimetable ==
  [t_day_start    |-> Str("0", "8", ":", "5", "0"),
   t_break1_start |-> Str("1", "0", ":", "3", "0"),
   t_break1_end   |-> Str("1", "0", ":", "4", "5"),
   t_lunch_start  |-> Str("1", "2", ":", "0", "0"),
   t_lunch_end    |-> Str("1", "3", ":", "0", "0"),
   t_day_end      |-> Str("1", "5", ":", "2", "0")]

(***************************************************************************)
(* Floats and doubles.  A level is a whole number of tenths of a decibel;  *)
(* the three non-finite floats are the values NaN, PosInf and NegInf,      *)
(* which no level takes.  The doubles calMean and calM2 are exact          *)
(* fractions [num, den] in lowest terms (calMean in tenths of a decibel,   *)
(* calM2 in squared tenths), so the running mean and the running sum of    *)
(* squares are computed as the firmware computes them, one sample at a     *)
(* time, without its rounding.                                             *)
(***************************************************************************)
NaN    == -1
PosInf == -2
NegInf == -3
NonFinite == {NaN, PosInf, NegInf}

isfinite(x) == x \notin NonFinite

Abs(x) == IF x < 0 THEN -x ELSE x

RECURSIVE GCD(_, _)
GCD(a, b) == IF b = 0 THEN a ELSE GCD(b, a % b)

Lowest(n, d, g) == [num |-> n \div g, den |-> d \div g]

Frac(n, d) ==
  IF d < 0 THEN Lowest(-n, -d, GCD(Abs(n), Abs(d)))
  ELSE Lowest(n, d, GCD(Abs(n), Abs(d)))

Whole(x) == [num |-> x, den |-> 1]

\* sums over the least common denominator
Common(p, q) == (p.den \div GCD(p.den, q.den)) * q.den
Scaled(p, d) == p.num * (d \div p.den)
FracAdd(p, q) ==
  Frac(Scaled(p, Common(p, q)) + Scaled(q, Common(p, q)), Common(p, q))
FracSub(p, q) ==
  Frac(Scaled(p, Common(p, q)) - Scaled(q, Common(p, q)), Common(p, q))
FracMul(p, q) == Frac(p.num * q.num, p.den * q.den)
FracDiv(p, n) == Frac(p.num, p.den * n)
FracLess(p, q) == p.num * q.den < q.num * p.den
Floor(p) == p.num \div p.den

\* the largest whole number whose square is at most q
RECURSIVE SqrtBetween(_, _, _)
SqrtBetween(q, lo, hi) ==
  IF hi - lo <= 1 THEN lo
  ELSE IF ((lo + hi) \div 2) * ((lo + hi) \div 2) <= q
       THEN SqrtBetween(q, (lo + hi) \div 2, hi)
       ELSE SqrtBetween(q, lo, (lo + hi) \div 2)

sqrt(q) == SqrtBetween(q, 0, 46341)

(***************************************************************************)
(* Preferences: every key is absent (<<>>) until it is first written, and  *)
(* a get of an absent key returns the default passed to it.                *)
(***************************************************************************)
Keys == {"rc_enabled", "rc_complete", "rc_start", "rc_count", "rc_mean",
         "rc_m2", "rc_min", "rc_max", "rc_g", "rc_a", "rc_r", "yearBand"}

Erased == [k \in Keys |-> <<>>]

Get(prefs, key, default) ==
  IF prefs[key] = <<>> THEN default ELSE prefs[key][1]

Put(prefs, key, value) == [prefs EXCEPT ![key] = <<value>>]

(***************************************************************************)
(* Room calibration.  The calibration globals are one record c, with the   *)
(* band, both threshold sets and the preferences, so that each function    *)
(* that writes them is a function of the record.  Epoch times are whole    *)
(* seconds.                                                                *)
(***************************************************************************)
ROOM_CAL_SECONDS == 432000
VALID_EPOCH      == 1700000000
MIN_CAL_SAMPLES  == 60
CAL_MIN_SENTINEL == 99990
CAL_MAX_SENTINEL == -99990

hasValidTime(t) == t > VALID_EPOCH

\* (uint32_t)(nowEpoch - roomCalStartEpoch) < ROOM_CAL_SECONDS: a negative
\* difference of two epochs casts to at least 2^31, above ROOM_CAL_SECONDS
ElapsedBelow(nowEpoch, startEpoch, limit) ==
  nowEpoch >= startEpoch /\ nowEpoch - startEpoch < limit

Calibration ==
  [yearBand |-> yearBand, ACTIVE_TH |-> ACTIVE_TH, CAL_TH |-> CAL_TH,
   roomCalEnabled |-> roomCalEnabled, roomCalComplete |-> roomCalComplete,
   roomCalStartEpoch |-> roomCalStartEpoch,
   calCount |-> calCount, calMean |-> calMean, calM2 |-> calM2,
   calMinDb |-> calMinDb, calMaxDb |-> calMaxDb,
   lastCalSampleMs |-> lastCalSampleMs, preferences |-> preferences]

PutStats(c) ==
  [c EXCEPT !.preferences =
     Put(Put(Put(Put(Put(@, "rc_count", c.calCount), "rc_mean", c.calMean),
                 "rc_m2", c.calM2), "rc_min", c.calMinDb),
         "rc_max", c.calMaxDb)]

PutThresholds(c) ==
  [c EXCEPT !.preferences =
     Put(Put(Put(@, "rc_g", c.CAL_TH.greenMax), "rc_a", c.CAL_TH.amberMax),
         "rc_r", c.CAL_TH.redWarnDb)]

PutWindow(c) ==
  [c EXCEPT !.preferences =
     Put(Put(@, "rc_complete", c.roomCalComplete),
         "rc_start", c.roomCalStartEpoch)]

resetRoomCalibration(c, nowEpoch) ==
  PutThresholds(PutStats(PutWindow(
    [c EXCEPT !.roomCalComplete = FALSE,
              !.roomCalStartEpoch = IF hasValidTime(nowEpoch) THEN nowEpoch
                                    ELSE 0,
              !.calCount = 0, !.calMean = Whole(0), !.calM2 = Whole(0),
              !.calMinDb = CAL_MIN_SENTINEL, !.calMaxDb = CAL_MAX_SENTINEL,
              !.CAL_TH = applyGuardrails(thresholdsForBand(c.yearBand),
                                         c.yearBand)])))

\* mutant of AddSquares: delta is squared
AddSquares_oldMean(c, x, delta) ==
  [c EXCEPT !.calM2 = FracAdd(@, FracMul(delta, delta))]

\* calM2 += delta * delta2, with delta2 = x - calMean after the mean moved
AddSquares(c, x, delta) ==
  [c EXCEPT !.calM2 = FracAdd(@, FracMul(delta, FracSub(x, c.calMean)))]

\* calMean += delta / calCount, with delta = x - calMean before it moved
MoveMean(c, x, delta) ==
  AddSquares([c EXCEPT !.calMean = FracAdd(@, FracDiv(delta, c.calCount))],
             x, delta)

MinMax(c, avg) ==
  [c EXCEPT !.calMinDb = IF avg < @ THEN avg ELSE @,
            !.calMaxDb = IF avg > @ THEN avg ELSE @]

CountSample(c, avg) ==
  MinMax(MoveMean([c EXCEPT !.calCount = @ + 1], Whole(avg),
                  FracSub(Whole(avg), c.calMean)), avg)

updateRoomCalibration(c, avg) ==
  IF ~isfinite(avg) THEN c ELSE CountSample(c, avg)

calibrationWindowActive(c, nowEpoch) ==
  /\ c.roomCalEnabled
  /\ ~c.roomCalComplete
  /\ hasValidTime(nowEpoch)
  /\ hasValidTime(c.roomCalStartEpoch)
  /\ ElapsedBelow(nowEpoch, c.roomCalStartEpoch, ROOM_CAL_SECONDS)

\* variance = calM2 / (calCount - 1), or 0 for a single sample or a
\* negative quotient
Variance(c) ==
  IF c.calCount > 1 /\ c.calM2.num > 0
  THEN FracDiv(c.calM2, c.calCount - 1)
  ELSE Whole(0)

\* mean + factor * sd, for a factor given in hundredths and sd in
\* hundredths of a decibel, rounded down to a tenth of a decibel
MeanPlus(mean, factor, sd) ==
  (Floor(FracMul(mean, Whole(10))) + (factor * sd) \div 100) \div 10

\* sd in hundredths of a decibel; sd < 1.0 dB is variance < 100
SpreadThresholds(mean, variance, sd) ==
  IF FracLess(variance, Whole(100))
  THEN Th(Floor(FracAdd(mean, Whole(10))), Floor(FracAdd(mean, Whole(30))),
          Floor(FracAdd(mean, Whole(60))))
  ELSE Th(MeanPlus(mean, 90, sd), MeanPlus(mean, 160, sd),
          MeanPlus(mean, 240, sd))

StatThresholds(mean, variance) ==
  SpreadThresholds(mean, variance,
                   sqrt((variance.num * 100) \div variance.den))

\* mutant of computeCalibratedThresholdsFromStats: no minimum sample count
computeCalibratedThresholdsFromStats_anyCount(c, band) ==
  applyGuardrails(StatThresholds(c.calMean, Variance(c)), band)

computeCalibratedThresholdsFromStats(c, band) ==
  IF c.calCount < MIN_CAL_SAMPLES
  THEN applyGuardrails(thresholdsForBand(band), band)
  ELSE applyGuardrails(StatThresholds(c.calMean, Variance(c)), band)

Finalize(c) ==
  [PutStats(PutThresholds(
     [c EXCEPT !.roomCalComplete = TRUE,
               !.preferences = Put(@, "rc_complete", TRUE)]))
   EXCEPT !.ACTIVE_TH = c.CAL_TH]

finalizeRoomCalibrationIfDue(c, nowEpoch) ==
  IF \/ ~c.roomCalEnabled
     \/ c.roomCalComplete
     \/ ~hasValidTime(nowEpoch) \/ ~hasValidTime(c.roomCalStartEpoch)
     \/ ElapsedBelow(nowEpoch, c.roomCalStartEpoch, ROOM_CAL_SECONDS)
  THEN c
  ELSE Finalize([c EXCEPT !.CAL_TH =
                   computeCalibratedThresholdsFromStats(c, c.yearBand)])

(***************************************************************************)
(* setup() and connectToWiFi(): the calibration globals as they are loaded *)
(* from the preferences, then as the portal's answers leave them.  The     *)
(* portal's answers are the calibration toggle and the year band computed  *)
(* from the year-group field; nowEpoch is time(NULL) in connectToWiFi.     *)
(***************************************************************************)
BandDefault(band) == applyGuardrails(thresholdsForBand(band), band)

StoredThresholds(prefs, band) ==
  applyGuardrails(
    Th(Get(prefs, "rc_g", thresholdsForBand(band).greenMax),
       Get(prefs, "rc_a", thresholdsForBand(band).amberMax),
       Get(prefs, "rc_r", thresholdsForBand(band).redWarnDb)), band)

UseCalibratedIfComplete(c) ==
  IF c.roomCalEnabled /\ c.roomCalComplete
  THEN [c EXCEPT !.ACTIVE_TH = c.CAL_TH]
  ELSE c

LoadCalibration(prefs, band) ==
  UseCalibratedIfComplete(
    [yearBand |-> band, ACTIVE_TH |-> BandDefault(band),
     CAL_TH |-> StoredThresholds(prefs, band),
     roomCalEnabled |-> Get(prefs, "rc_enabled", FALSE),
     roomCalComplete |-> Get(prefs, "rc_complete", FALSE),
     roomCalStartEpoch |-> Get(prefs, "rc_start", 0),
     calCount |-> Get(prefs, "rc_count", 0),
     calMean |-> Get(prefs, "rc_mean", Whole(0)),
     calM2 |-> Get(prefs, "rc_m2", Whole(0)),
     calMinDb |-> Get(prefs, "rc_min", CAL_MIN_SENTINEL),
     calMaxDb |-> Get(prefs, "rc_max", CAL_MAX_SENTINEL),
     lastCalSampleMs |-> 0, preferences |-> prefs])

\* mutant of EnableCalibration: the previous window is kept
EnableCalibration_keepsWindow(c, nowEpoch) ==
  [c EXCEPT !.roomCalEnabled = TRUE,
            !.preferences = Put(@, "rc_enabled", TRUE)]

EnableCalibration(c, nowEpoch) ==
  resetRoomCalibration(
    [c EXCEPT !.roomCalEnabled = TRUE,
              !.preferences = Put(@, "rc_enabled", TRUE)], nowEpoch)

DisableCalibration(c) ==
  [c EXCEPT !.roomCalEnabled = FALSE,
            !.preferences = Put(@, "rc_enabled", FALSE),
            !.ACTIVE_TH = BandDefault(c.yearBand)]

CalibrationToggle(c, newRoomCalEnabled, nowEpoch) ==
  IF newRoomCalEnabled /\ ~c.roomCalEnabled
  THEN EnableCalibration(c, nowEpoch)
  ELSE IF ~newRoomCalEnabled /\ c.roomCalEnabled
       THEN DisableCalibration(c)
       ELSE [c EXCEPT !.roomCalEnabled = newRoomCalEnabled,
                      !.preferences = Put(@, "rc_enabled", newRoomCalEnabled)]

\* mutant of SelectThresholds: the calibrated set is used once enabled
SelectThresholds_ignoresComplete(c) ==
  [c EXCEPT !.CAL_TH = StoredThresholds(c.preferences, c.yearBand),
            !.roomCalComplete = Get(c.preferences, "rc_complete", FALSE),
            !.roomCalStartEpoch = Get(c.preferences, "rc_start", 0),
            !.ACTIVE_TH =
               IF c.roomCalEnabled
               THEN StoredThresholds(c.preferences, c.yearBand)
               ELSE BandDefault(c.yearBand),
            !.preferences = Put(@, "yearBand", c.yearBand)]

SelectThresholds(c) ==
  [c EXCEPT !.CAL_TH = StoredThresholds(c.preferences, c.yearBand),
            !.roomCalComplete = Get(c.preferences, "rc_complete", FALSE),
            !.roomCalStartEpoch = Get(c.preferences, "rc_start", 0),
            !.ACTIVE_TH =
               IF c.roomCalEnabled /\ Get(c.preferences, "rc_complete", FALSE)
               THEN StoredThresholds(c.preferences, c.yearBand)
               ELSE BandDefault(c.yearBand),
            !.preferences = Put(@, "yearBand", c.yearBand)]

connectToWiFi(c, newRoomCalEnabled, band, nowEpoch) ==
  SelectThresholds(
    CalibrationToggle([c EXCEPT !.yearBand = band], newRoomCalEnabled,
                      nowEpoch))

setup(prefs, newRoomCalEnabled, band, nowEpoch) ==
  connectToWiFi(LoadCalibration(prefs, Get(prefs, "yearBand", "Y2Y3")),
                newRoomCalEnabled, band, nowEpoch)

(***************************************************************************)
(* The rolling buffer of the microphone levels                             *)
(***************************************************************************)
AVG_SAMPLE_COUNT == 150

Slots == 0..(AVG_SAMPLE_COUNT - 1)

clearDBHistory == [i \in Slots |-> BASELINE_DB]

\* mutant of updateRollingAverage: a non-finite value is stored too
updateRollingAverage_anyValue(buffer, newVal) ==
  [dbHistory |-> [buffer.dbHistory EXCEPT ![buffer.currentIndex] = newVal],
   currentIndex |-> (buffer.currentIndex + 1) % AVG_SAMPLE_COUNT]

updateRollingAverage(buffer, newVal) ==
  IF ~isfinite(newVal)
  THEN buffer
  ELSE [dbHistory |->
          [buffer.dbHistory EXCEPT ![buffer.currentIndex] = newVal],
        currentIndex |-> (buffer.currentIndex + 1) % AVG_SAMPLE_COUNT]

\* total of the slots lo .. hi-1, added by halves; the float sum is taken
\* exact, so the order of the additions does not matter
RECURSIVE Total(_, _, _)
Total(history, lo, hi) ==
  IF hi - lo = 1 THEN history[lo]
  ELSE Total(history, lo, (lo + hi) \div 2)
       + Total(history, (lo + hi) \div 2, hi)

calculateAverage(history) ==
  Frac(Total(history, 0, AVG_SAMPLE_COUNT), AVG_SAMPLE_COUNT)

(***************************************************************************)
(* The calibration globals, the buffer and the histories of a device on    *)
(* which calibration was never enabled, after setup().                     *)
(***************************************************************************)
NoFed ==
  [n |-> 0, sum |-> 0, sumSq |-> 0, lo |-> 0, hi |-> 0, last |-> 0,
   before |-> <<>>]

NoCalObs ==
  [op |-> "none", nowEpoch |-> 0, calRan |-> FALSE, sampled |-> FALSE,
   finalized |-> FALSE, gap |-> Ms(60000), boots |-> 0, sameConfig |-> TRUE,
   discarded |-> <<>>]

CalGlobalsAre(c) ==
  /\ yearBand = c.yearBand /\ ACTIVE_TH = c.ACTIVE_TH /\ CAL_TH = c.CAL_TH
  /\ roomCalEnabled = c.roomCalEnabled
  /\ roomCalComplete = c.roomCalComplete
  /\ roomCalStartEpoch = c.roomCalStartEpoch
  /\ calCount = c.calCount /\ calMean = c.calMean /\ calM2 = c.calM2
  /\ calMinDb = c.calMinDb /\ calMaxDb = c.calMaxDb
  /\ lastCalSampleMs = c.lastCalSampleMs
  /\ preferences = c.preferences

NoMicCall == [newVal |-> BASELINE_DB, ignored |-> 0]

BufferCleared ==
  /\ dbHistory = clearDBHistory /\ currentIndex = 0 /\ recorded = <<>>
  /\ micCall = NoMicCall

CalibrationOff ==
  /\ roomCalEnabled = FALSE /\ roomCalComplete = FALSE
  /\ roomCalStartEpoch = 0
  /\ calCount = 0 /\ calMean = Whole(0) /\ calM2 = Whole(0)
  /\ calMinDb = CAL_MIN_SENTINEL /\ calMaxDb = CAL_MAX_SENTINEL
  /\ CAL_TH = BandDefault(yearBand)
  /\ lastCalSampleMs = 0
  /\ preferences = Put(Put(Erased, "rc_enabled", FALSE), "yearBand", yearBand)
  /\ calObs = NoCalObs
  /\ BufferCleared
  /\ statCall = NoFed

(***************************************************************************)
(* Harness for applyGuardrails: any finite threshold triple, any band.     *)
(***************************************************************************)
InLo    == 340
InStep  == 15
InCount == 24

ThValues == {InLo + k * InStep : k \in 0..InCount}
ThArgs   == {Th(g, a, r) : g \in ThValues, a \in ThValues, r \in ThValues}

GuardInit ==
  /\ guardCall = NoCall /\ hysCall = NoCall /\ schedCall = NoCall
  /\ yearBand = "Y2Y3" /\ ACTIVE_TH = Th(430, 480, 520)
  /\ useTimetable = TRUE /\ timetable = DefaultTimetable
  /\ PoweredOn
  /\ CalibrationOff

CallApplyGuardrails ==
  /\ guardCall = NoCall
  /\ \E th \in ThArgs, band \in Bands :
       guardCall' = [done |-> TRUE, th |-> th, band |-> band,
                     out |-> applyGuardrails(th, band)]
  /\ UNCHANGED <<progVars, loopVars, hysCall, schedCall>>

GuardNext == CallApplyGuardrails

SpecGuard == GuardInit /\ [][GuardNext]_vars

\* C1: every result of applyGuardrails keeps the gaps greenMax < amberMax - 1 dB
\* and amberMax < redWarnDb - 1 dB, and each of its three fields lies inside the
\* band's guardrail interval, also where normalization raised amberMax or redWarnDb.
C1_GuardrailsGapAndBounds ==
  guardCall.done =>
    LET o  == guardCall.out
        gr == guardrailsForBand(guardCall.band)
    IN  /\ o.greenMax < o.amberMax - 10
        /\ o.amberMax < o.redWarnDb - 10
        /\ gr.gMin <= o.greenMax  /\ o.greenMax  <= gr.gMax
        /\ gr.aMin <= o.amberMax  /\ o.amberMax  <= gr.aMax
        /\ gr.rMin <= o.redWarnDb /\ o.redWarnDb <= gr.rMax

\* a call where the clamped amber and red values were both too close and
\* normalization pushed both of them upward
C1_Witness ==
  /\ guardCall.done
  /\ LET gr == guardrailsForBand(guardCall.band)
     IN  /\ guardCall.out.amberMax  > clampf(guardCall.th.amberMax,  gr.aMin, gr.aMax)
         /\ guardCall.out.redWarnDb > clampf(guardCall.th.redWarnDb, gr.rMin, gr.rMax)
         /\ guardCall.th.greenMax > gr.gMax

(***************************************************************************)
(* Colour zones and sticky hysteresis                                      *)
(***************************************************************************)
HYS_GA_DEFAULT == 7
HYS_AD_DEFAULT == 9
HYS_DR_DEFAULT == 10

isSendClassroom == yearBand = "SEND"

classifyZone(dB) ==
  IF dB <= ACTIVE_TH.greenMax THEN Z_GREEN
  ELSE IF dB <= ACTIVE_TH.amberMax THEN Z_AMBER
  ELSE IF dB <= ACTIVE_TH.redWarnDb THEN Z_DEEP
  ELSE Z_RED

hysGA == IF isSendClassroom THEN 12 ELSE HYS_GA_DEFAULT
hysAD == IF isSendClassroom THEN 15 ELSE HYS_AD_DEFAULT
hysDR == HYS_DR_DEFAULT

\* mutant of applyStickyHysteresis: the boundaries themselves already switch
\* the zone (>= and <= instead of > and <)
applyStickyHysteresis_inclusive(current, dB) ==
  CASE current = Z_GREEN ->
         IF dB >= ACTIVE_TH.greenMax + hysGA THEN Z_AMBER ELSE Z_GREEN
    [] current = Z_AMBER ->
         IF dB <= ACTIVE_TH.greenMax - hysGA THEN Z_GREEN
         ELSE IF dB >= ACTIVE_TH.amberMax + hysAD THEN Z_DEEP
         ELSE Z_AMBER
    [] current = Z_DEEP ->
         IF dB <= ACTIVE_TH.amberMax - hysAD THEN Z_AMBER
         ELSE IF dB >= ACTIVE_TH.redWarnDb + hysDR THEN Z_RED
         ELSE Z_DEEP
    [] OTHER ->
         IF dB <= ACTIVE_TH.redWarnDb - hysDR THEN Z_DEEP ELSE Z_RED

\* mutant of applyStickyHysteresis: the margins are applied with the wrong
\* sign (a zone is left before its threshold and entered back after it)
applyStickyHysteresis_inverted(current, dB) ==
  CASE current = Z_GREEN ->
         IF dB > ACTIVE_TH.greenMax - hysGA THEN Z_AMBER ELSE Z_GREEN
    [] current = Z_AMBER ->
         IF dB < ACTIVE_TH.greenMax + hysGA THEN Z_GREEN
         ELSE IF dB > ACTIVE_TH.amberMax - hysAD THEN Z_DEEP
         ELSE Z_AMBER
    [] current = Z_DEEP ->
         IF dB < ACTIVE_TH.amberMax + hysAD THEN Z_AMBER
         ELSE IF dB > ACTIVE_TH.redWarnDb - hysDR THEN Z_RED
         ELSE Z_DEEP
    [] OTHER ->
         IF dB < ACTIVE_TH.redWarnDb + hysDR THEN Z_DEEP ELSE Z_RED

\* mutant of applyStickyHysteresis: the zone follows the value at once
applyStickyHysteresis_stateless(current, dB) == classifyZone(dB)

applyStickyHysteresis(current, dB) ==
  CASE current = Z_GREEN ->
         IF dB > ACTIVE_TH.greenMax + hysGA THEN Z_AMBER ELSE Z_GREEN
    [] current = Z_AMBER ->
         IF dB < ACTIVE_TH.greenMax - hysGA THEN Z_GREEN
         ELSE IF dB > ACTIVE_TH.amberMax + hysAD THEN Z_DEEP
         ELSE Z_AMBER
    [] current = Z_DEEP ->
         IF dB < ACTIVE_TH.amberMax - hysAD THEN Z_AMBER
         ELSE IF dB > ACTIVE_TH.redWarnDb + hysDR THEN Z_RED
         ELSE Z_DEEP
    [] OTHER ->
         IF dB < ACTIVE_TH.redWarnDb - hysDR THEN Z_DEEP ELSE Z_RED

(***************************************************************************)
(* Harness for applyStickyHysteresis: the thresholds are the band defaults *)
(* or guardrailed calibration results of the band, the value is any level  *)
(* in tenths of a dB between LevelLo and LevelHi.                          *)
(***************************************************************************)
RealBands == {"SEND", "RY1", "Y2Y3", "Y4Y6"}

LevelLo == 340
LevelHi == 700
Levels  == LevelLo..LevelHi

\* raw calibration results: all clamped low, all clamped high, a flat triple
\* that normalization spreads to the minimal 2 dB gaps
RawSamples == {Th(0, 0, 0), Th(990, 990, 990), Th(470, 470, 470)}

ThresholdSets(band) ==
  {applyGuardrails(thresholdsForBand(band), band)} \cup
  {applyGuardrails(th, band) : th \in RawSamples}

HysInit ==
  /\ yearBand \in RealBands
  /\ ACTIVE_TH \in ThresholdSets(yearBand)
  /\ useTimetable = TRUE /\ timetable = DefaultTimetable
  /\ guardCall = NoCall /\ hysCall = NoCall /\ schedCall = NoCall
  /\ PoweredOn
  /\ CalibrationOff

CallHysteresis ==
  /\ hysCall = NoCall
  /\ \E z \in ColorZone, v \in Levels :
       LET z1 == applyStickyHysteresis(z, v)
           z2 == applyStickyHysteresis(z1, v)
           z3 == applyStickyHysteresis(z2, v)
       IN  hysCall' = [done |-> TRUE, zone |-> z, dB |-> v, next |-> z1,
                       again |-> z2, third |-> z3,
                       fourth |-> applyStickyHysteresis(z3, v)]
  /\ UNCHANGED <<progVars, loopVars, guardCall, schedCall>>

HysNext == CallHysteresis

SpecHys == HysInit /\ [][HysNext]_vars

ZoneLevel(z) ==
  CASE z = Z_GREEN -> 0 [] z = Z_AMBER -> 1 [] z = Z_DEEP -> 2 [] OTHER -> 3

\* C6: applyStickyHysteresis follows the transition table: Green -> Amber iff
\* value > greenMax + marginGA, else Green; Amber -> Green iff value <
\* greenMax - marginGA, else Deep iff value > amberMax + marginAD, else Amber;
\* Deep -> Amber iff value < amberMax - marginAD, else Red iff value >
\* redWarnDb + marginDR, else Deep; Red -> Deep iff value < redWarnDb -
\* marginDR, else Red.  With greenMax 49.0 and marginGA 0.7: from Green 49.5
\* stays Green and 49.8 gives Amber; from Amber only below 48.3 gives Green.
C6_HysteresisTable ==
  hysCall.done =>
    LET z  == hysCall.zone
        v  == hysCall.dB
        n  == hysCall.next
        mGA == IF yearBand = "SEND" THEN 12 ELSE 7
        mAD == IF yearBand = "SEND" THEN 15 ELSE 9
        mDR == 10
        g  == ACTIVE_TH.greenMax
        a  == ACTIVE_TH.amberMax
        r  == ACTIVE_TH.redWarnDb
    IN  /\ z = Z_GREEN =>
              /\ (n = Z_AMBER) = (v > g + mGA)
              /\ (n = Z_GREEN) = ~(v > g + mGA)
        /\ z = Z_AMBER =>
              /\ (n = Z_GREEN) = (v < g - mGA)
              /\ (n = Z_DEEP)  = (~(v < g - mGA) /\ v > a + mAD)
              /\ (n = Z_AMBER) = (~(v < g - mGA) /\ ~(v > a + mAD))
        /\ z = Z_DEEP =>
              /\ (n = Z_AMBER) = (v < a - mAD)
              /\ (n = Z_RED)   = (~(v < a - mAD) /\ v > r + mDR)
              /\ (n = Z_DEEP)  = (~(v < a - mAD) /\ ~(v > r + mDR))
        /\ z = Z_RED =>
              /\ (n = Z_DEEP) = (v < r - mDR)
              /\ (n = Z_RED)  = ~(v < r - mDR)
        /\ (g = 490 /\ mGA = 7 /\ z = Z_GREEN /\ v = 495) => n = Z_GREEN
        /\ (g = 490 /\ mGA = 7 /\ z = Z_GREEN /\ v = 498) => n = Z_AMBER
        /\ (g = 490 /\ mGA = 7 /\ z = Z_AMBER) => ((n = Z_GREEN) = (v < 483))

\* the spec's example: greenMax 49.0, margin 0.7, Amber at 48.5 (below
\* greenMax, not below 48.3) stays Amber
C6_Witness ==
  /\ hysCall.done
  /\ ACTIVE_TH.greenMax = 490 /\ yearBand = "Y2Y3"
  /\ hysCall.zone = Z_AMBER /\ hysCall.dB = 485 /\ hysCall.next = Z_AMBER

DigitChars == <<"0", "1", "2", "3", "4", "5", "6", "7", "8", "9">>
IsDigit(c) == \E i \in 1..10 : DigitChars[i] = c
DigitVal(c) == (CHOOSE i \in 1..10 : DigitChars[i] = c) - 1

\* position of the first character at or after i that is not white space
SkipSpace(str, i) ==
  CHOOSE j \in i..(Len(str) + 1) :
    /\ j = Len(str) + 1 \/ str[j] # " "
    /\ \A p \in i..(j - 1) : str[p] = " "

\* position after the digits that start at position i
DigitsEnd(str, i) ==
  CHOOSE j \in i..(Len(str) + 1) :
    /\ j = Len(str) + 1 \/ ~IsDigit(str[j])
    /\ \A p \in i..(j - 1) : IsDigit(str[p])

\* value of the digits at positions i .. end-1 (a buffer holds at most 5
\* characters)
Pow10 == <<1, 10, 100, 1000, 10000>>

DigitsValue(str, i, end) ==
  LET D(p) == IF p >= i /\ p < end THEN DigitVal(str[p]) * Pow10[end - p] ELSE 0
  IN  D(1) + D(2) + D(3) + D(4) + D(5)

\* sscanf's %d with the white space skipped, j the position of the sign or of
\* the first digit, k the position after the sign, end the one after the digits
ScanIntAt(str, j, k, end) ==
  IF end = k THEN [ok |-> FALSE, val |-> 0, pos |-> k]
  ELSE [ok |-> TRUE,
        val |-> IF k > j /\ str[j] = "-" THEN 0 - DigitsValue(str, k, end)
                ELSE DigitsValue(str, k, end),
        pos |-> end]

ScanSigned(str, j) ==
  IF j <= Len(str) /\ str[j] \in {"+", "-"}
  THEN ScanIntAt(str, j, j + 1, DigitsEnd(str, j + 1))
  ELSE ScanIntAt(str, j, j, DigitsEnd(str, j))

\* sscanf's %d at position i: white space, an optional sign, at least one digit
ScanInt(str, i) == ScanSigned(str, SkipSpace(str, i))

\* the second conversion of "%d:%d", a the result of the first one
ScanMinutes(a, b) ==
  IF ~b.ok THEN [n |-> 1, h |-> a.val, m |-> 0]
  ELSE [n |-> 2, h |-> a.val, m |-> b.val]

ScanColon(str, a) ==
  IF ~a.ok THEN [n |-> 0, h |-> 0, m |-> 0]
  ELSE IF ~(a.pos <= Len(str) /\ str[a.pos] = ":") THEN [n |-> 1, h |-> a.val, m |-> 0]
  ELSE ScanMinutes(a, ScanInt(str, a.pos + 1))

\* sscanf(hhmm, "%d:%d", &h, &m): the number of conversions, and h and m
Sscanf2(str) == ScanColon(str, ScanInt(str, 1))

\* parseTimeToMins after the sscanf, r its result
MinsOf(r) ==
  IF r.n # 2 THEN -1
  ELSE IF r.h < 0 \/ r.h > 23 \/ r.m < 0 \/ r.m > 59 THEN -1
  ELSE r.h * 60 + r.m

parseTimeToMins(hhmm) ==
  IF Len(hhmm) < 4 \/ Len(hhmm) > 5 THEN -1
  ELSE MinsOf(Sscanf2(hhmm))

TIMETABLE_ENABLED == 1

\* the hardcoded timetable used when the configured one is rejected
fallbackWindow(mins) ==
  IF mins >= 530 /\ mins < 625 THEN LESSON
  ELSE IF mins >= 625 /\ mins < 645 THEN ASSEMBLY
  ELSE IF mins >= 645 /\ mins < 660 THEN BREAK
  ELSE IF mins >= 660 /\ mins < 720 THEN LESSON
  ELSE IF mins >= 720 /\ mins < 780 THEN LUNCH
  ELSE IF mins >= 780 /\ mins < 920 THEN LESSON
  ELSE OFF

\* mutant of configOk: the order of lunch end and day end is not checked
configOk_noEndCheck(dayStart, break1Start, break1End, lunchStart, lunchEnd, dayEnd) ==
  /\ dayStart >= 0 /\ break1Start >= 0 /\ break1End >= 0
  /\ lunchStart >= 0 /\ lunchEnd >= 0 /\ dayEnd >= 0
  /\ dayStart < break1Start /\ break1Start < break1End
  /\ break1End <= lunchStart /\ lunchStart < lunchEnd

configOk(dayStart, break1Start, break1End, lunchStart, lunchEnd, dayEnd) ==
  /\ dayStart >= 0 /\ break1Start >= 0 /\ break1End >= 0
  /\ lunchStart >= 0 /\ lunchEnd >= 0 /\ dayEnd >= 0
  /\ dayStart < break1Start /\ break1Start < break1End
  /\ break1End <= lunchStart /\ lunchStart < lunchEnd
  /\ lunchEnd < dayEnd

\* mutant of timetableWindow: the break ends one minute late (<= for <)
timetableWindow_lateEnd(mins, dayStart, break1Start, break1End, lunchStart, lunchEnd, dayEnd) ==
  IF ~configOk(dayStart, break1Start, break1End, lunchStart, lunchEnd, dayEnd)
  THEN fallbackWindow(mins)
  ELSE IF mins < dayStart \/ mins >= dayEnd THEN OFF
  ELSE IF mins < break1Start THEN LESSON
  ELSE IF mins <= break1End THEN BREAK
  ELSE IF mins < lunchStart THEN LESSON
  ELSE IF mins < lunchEnd THEN LUNCH
  ELSE LESSON

\* getWindowState on a school day, after the six boundaries were parsed
timetableWindow(mins, dayStart, break1Start, break1End, lunchStart, lunchEnd, dayEnd) ==
  IF ~configOk(dayStart, break1Start, break1End, lunchStart, lunchEnd, dayEnd)
  THEN fallbackWindow(mins)
  ELSE IF mins < dayStart \/ mins >= dayEnd THEN OFF
  ELSE IF mins < break1Start THEN LESSON
  ELSE IF mins < break1End THEN BREAK
  ELSE IF mins < lunchStart THEN LESSON
  ELSE IF mins < lunchEnd THEN LUNCH
  ELSE LESSON

\* mutant of getWindowState: Saturday is taken for a school day
getWindowState_saturday(wday, h, m) ==
  IF ~useTimetable THEN LESSON
  ELSE IF TIMETABLE_ENABLED = 0 THEN LESSON
  ELSE IF wday < 1 \/ wday > 6 THEN OFF
  ELSE timetableWindow(h * 60 + m,
                       parseTimeToMins(timetable.t_day_start),
                       parseTimeToMins(timetable.t_break1_start),
                       parseTimeToMins(timetable.t_break1_end),
                       parseTimeToMins(timetable.t_lunch_start),
                       parseTimeToMins(timetable.t_lunch_end),
                       parseTimeToMins(timetable.t_day_end))

getWindowState(wday, h, m) ==
  IF ~useTimetable THEN LESSON
  ELSE IF TIMETABLE_ENABLED = 0 THEN LESSON
  ELSE IF wday < 1 \/ wday > 5 THEN OFF
  ELSE timetableWindow(h * 60 + m,
                       parseTimeToMins(timetable.t_day_start),
                       parseTimeToMins(timetable.t_break1_start),
                       parseTimeToMins(timetable.t_break1_end),
                       parseTimeToMins(timetable.t_lunch_start),
                       parseTimeToMins(timetable.t_lunch_end),
                       parseTimeToMins(timetable.t_day_end))

(***************************************************************************)
(* Harness for getWindowState: the configuration is what the portal left   *)
(* (any one boundary replaced by any string of Pool, and some timetables   *)
(* with several boundaries changed); the clock reads any weekday and every *)
(* ClockStep-th minute of the day.                                         *)
(***************************************************************************)
Fields == {"t_day_start", "t_break1_start", "t_break1_end",
           "t_lunch_start", "t_lunch_end", "t_day_end"}

\* strings the parser accepts although they are not of the form HH:MM
LenientStrings ==
  {<<"9", ":", "0", "0">>,            \* 09:00
   <<"9", ":", "5", "x">>,            \* 09:05, the x is not read
   <<" ", "9", ":", "0", "0">>,       \* 09:00 after white space
   <<"+", "9", ":", "1", "0">>,       \* 09:10 with a sign
   <<"1", "1", ":", " ", "5">>}       \* 11:05, white space before the minutes

\* strings the parser rejects
MalformedStrings ==
  {<<>>,                              \* empty
   <<"8", ":", "5">>,                 \* too short
   <<"1", "0", "3", "0">>,            \* no colon
   <<"a", "b", ":", "c", "d">>,       \* no digits
   <<"2", "4", ":", "0", "0">>,       \* hour out of range
   <<"1", "2", ":", "6", "0">>,       \* minute out of range
   <<"-", "8", ":", "5", "0">>,       \* negative hour
   <<"1", "0", ":", "-", "5">>,       \* negative minute
   <<"1", "0", " ", ":", "5">>,       \* white space before the colon
   <<"1", "2", ":", "x", "5">>}       \* no minutes

Pool ==
  {DefaultTimetable[f] : f \in Fields} \cup LenientStrings \cup MalformedStrings

OneChanged == {[DefaultTimetable EXCEPT ![f] = str] : f \in Fields, str \in Pool}

SeveralChanged ==
  {[t_day_start    |-> <<"9", ":", "0", "0">>,
    t_break1_start |-> Str("1", "0", ":", "0", "0"),
    t_break1_end   |-> Str("1", "0", ":", "2", "0"),
    t_lunch_start  |-> Str("1", "2", ":", "3", "0"),
    t_lunch_end    |-> Str("1", "3", ":", "3", "0"),
    t_day_end      |-> Str("1", "5", ":", "0", "0")],
   \* no first lesson and no lunch: every boundary parses, none is earlier
   \* than the one before it
   [t_day_start    |-> Str("0", "9", ":", "0", "0"),
    t_break1_start |-> Str("0", "9", ":", "0", "0"),
    t_break1_end   |-> Str("0", "9", ":", "3", "0"),
    t_lunch_start  |-> Str("1", "2", ":", "0", "0"),
    t_lunch_end    |-> Str("1", "2", ":", "0", "0"),
    t_day_end      |-> Str("1", "4", ":", "0", "0")],
   \* break runs into lunch and the day is longer
   [t_day_start    |-> Str("0", "8", ":", "0", "0"),
    t_break1_start |-> Str("1", "1", ":", "0", "0"),
    t_break1_end   |-> Str("1", "1", ":", "3", "0"),
    t_lunch_start  |-> Str("1", "1", ":", "3", "0"),
    t_lunch_end    |-> Str("1", "2", ":", "1", "5"),
    t_day_end      |-> Str("2", "3", ":", "5", "5")],
   \* two malformed boundaries
   [DefaultTimetable EXCEPT !.t_day_start = <<>>,
                            !.t_day_end = Str("2", "4", ":", "0", "0")],
   \* the whole day reversed
   [t_day_start    |-> Str("1", "5", ":", "2", "0"),
    t_break1_start |-> Str("1", "3", ":", "0", "0"),
    t_break1_end   |-> Str("1", "2", ":", "0", "0"),
    t_lunch_start  |-> Str("1", "0", ":", "4", "5"),
    t_lunch_end    |-> Str("1", "0", ":", "3", "0"),
    t_day_end      |-> Str("0", "8", ":", "5", "0")]}

Timetables == OneChanged \cup SeveralChanged

\* every ClockStep-th minute of the school day, every full hour of the rest
ClockStep    == 5
ClockMinutes ==
  {mins \in 0..1439 : \/ mins % 60 = 0
                      \/ mins % ClockStep = 0 /\ mins >= 8 * 60 /\ mins <= 16 * 60}
Weekdays     == 0..6

SchedInit ==
  /\ useTimetable \in BOOLEAN
  /\ timetable \in (IF useTimetable THEN Timetables
                     ELSE SeveralChanged \cup {DefaultTimetable})
  /\ yearBand = "Y2Y3" /\ ACTIVE_TH = Th(430, 480, 520)
  /\ guardCall = NoCall /\ hysCall = NoCall /\ schedCall = NoCall
  /\ PoweredOn
  /\ CalibrationOff

CallGetWindowState ==
  /\ schedCall = NoCall
  /\ \E wday \in Weekdays, mins \in ClockMinutes :
       schedCall' = [done |-> TRUE, wday |-> wday, mins |-> mins,
                     ws |-> getWindowState(wday, mins \div 60, mins % 60)]
  /\ UNCHANGED <<progVars, loopVars, guardCall, hysCall>>

SchedNext == CallGetWindowState

SpecSched == SchedInit /\ [][SchedNext]_vars

\* the six boundaries of the configured timetable, in minutes after midnight
Parsed == [f \in Fields |-> parseTimeToMins(timetable[f])]

AllParse(b) == \A f \in Fields : b[f] >= 0

\* the partition claimed for a configured timetable with boundaries b
SegmentOf(b, mins) ==
  IF b.t_day_start <= mins /\ mins < b.t_break1_start THEN LESSON
  ELSE IF b.t_break1_start <= mins /\ mins < b.t_break1_end THEN BREAK
  ELSE IF b.t_break1_end <= mins /\ mins < b.t_lunch_start THEN LESSON
  ELSE IF b.t_lunch_start <= mins /\ mins < b.t_lunch_end THEN LUNCH
  ELSE IF b.t_lunch_end <= mins /\ mins < b.t_day_end THEN LESSON
  ELSE OFF

\* no boundary is earlier than the one before it
InOrder(b) ==
  /\ b.t_day_start <= b.t_break1_start
  /\ b.t_break1_start <= b.t_break1_end
  /\ b.t_break1_end <= b.t_lunch_start
  /\ b.t_lunch_start <= b.t_lunch_end
  /\ b.t_lunch_end <= b.t_day_end

\* every boundary is later than the one before it, except that the break may
\* end when lunch starts
StrictlyInOrder(b) ==
  /\ b.t_day_start < b.t_break1_start
  /\ b.t_break1_start < b.t_break1_end
  /\ b.t_break1_end <= b.t_lunch_start
  /\ b.t_lunch_start < b.t_lunch_end
  /\ b.t_lunch_end < b.t_day_end

\* C8 as stated: Monday to Friday, timetable in use, six boundaries that parse
\* and are in chronological order: the day is partitioned into
\* [dayStart,breakStart) Lesson, [breakStart,breakEnd) Break,
\* [breakEnd,lunchStart) Lesson, [lunchStart,lunchEnd) Lunch,
\* [lunchEnd,dayEnd) Lesson, Off otherwise, and Assembly is never returned.
C8_PartitionInOrder ==
  (schedCall.done /\ useTimetable /\ schedCall.wday \in 1..5) =>
    LET b == Parsed
    IN  (AllParse(b) /\ InOrder(b))
          => /\ schedCall.ws = SegmentOf(b, schedCall.mins)
             /\ schedCall.ws # ASSEMBLY

\* C8 amended: the same partition, for boundaries that parse and are each
\* strictly later than the one before (break end may equal lunch start).
C8_PartitionStrictOrder ==
  (schedCall.done /\ useTimetable /\ schedCall.wday \in 1..5) =>
    LET b == Parsed
    IN  (AllParse(b) /\ StrictlyInOrder(b))
          => /\ schedCall.ws = SegmentOf(b, schedCall.mins)
             /\ schedCall.ws # ASSEMBLY

\* a configured (not the default) timetable whose break ends when lunch
\* starts, asked at that very minute on a Wednesday: Lunch
C8_Witness ==
  /\ schedCall.done /\ useTimetable /\ schedCall.wday = 3
  /\ schedCall.ws = LUNCH
  /\ timetable # DefaultTimetable
  /\ LET b == Parsed
     IN  /\ AllParse(b) /\ StrictlyInOrder(b)
         /\ b.t_break1_end = b.t_lunch_start
         /\ schedCall.mins = b.t_lunch_start

\* C9: with the always-on override getWindowState returns Lesson for every
\* weekday and time; without it, on Saturday and Sunday it returns Off at
\* every time and for every timetable, valid or malformed.
C9_OverrideThenWeekend ==
  schedCall.done =>
    /\ ~useTimetable => schedCall.ws = LESSON
    /\ (useTimetable /\ schedCall.wday \in {0, 6}) => schedCall.ws = OFF

\* Saturday 09:00 with a malformed timetable and the timetable in use: Off
C9_Witness ==
  /\ schedCall.done /\ useTimetable /\ schedCall.wday = 6
  /\ schedCall.mins = 540 /\ schedCall.ws = OFF
  /\ ~AllParse(Parsed)

\* the hardcoded default timetable: 08:50 Lesson, 10:25 Assembly, 10:45
\* Break, 11:00 Lesson, 12:00 Lunch, 13:00 Lesson, 15:20 Off
HardcodedWindow(mins) ==
  CASE mins \in (8 * 60 + 50)..(10 * 60 + 24)  -> LESSON
    [] mins \in (10 * 60 + 25)..(10 * 60 + 44) -> ASSEMBLY
    [] mins \in (10 * 60 + 45)..(10 * 60 + 59) -> BREAK
    [] mins \in (11 * 60)..(11 * 60 + 59)      -> LESSON
    [] mins \in (12 * 60)..(12 * 60 + 59)      -> LUNCH
    [] mins \in (13 * 60)..(15 * 60 + 19)      -> LESSON
    [] OTHER                                   -> OFF

\* some boundary is earlier than the one before it
OutOfOrder(b) == ~InOrder(b)

\* C10: when a boundary fails to parse (not HH:MM, or out of range) or the
\* boundaries are out of chronological order, getWindowState returns on a
\* school day the window of the hardcoded default timetable, whatever the
\* configured values; every result is one of Off, Lesson, Assembly, Break, Lunch.
C10_FallbackTimetable ==
  schedCall.done =>
    /\ schedCall.ws \in WindowState
    /\ (useTimetable /\ schedCall.wday \in 1..5) =>
         LET b == Parsed
         IN  (~AllParse(b) \/ OutOfOrder(b)
                \/ \E f \in Fields : timetable[f] \in MalformedStrings)
               => schedCall.ws = HardcodedWindow(schedCall.mins)

\* a timetable whose day end is "24:00", asked on a Monday at 15:30, where
\* the configured day would still be a lesson: Off, as in the default
C10_Witness ==
  /\ schedCall.done /\ useTimetable /\ schedCall.wday = 1
  /\ timetable.t_day_end = Str("2", "4", ":", "0", "0")
  /\ timetable.t_day_start = DefaultTimetable.t_day_start
  /\ schedCall.mins = 15 * 60 + 30
  /\ schedCall.ws = OFF

(***************************************************************************)
(* loop(): the globals it reads and writes, as one record, so that the     *)
(* stages of one iteration can be written as functions of the record.      *)
(* cal is the record of the calibration globals and nowEpoch the value of  *)
(* time(NULL) on this iteration.  granted, branch, calRan and sampled are  *)
(* history: whether this iteration granted a reward, which branch of the   *)
(* reward logic it took, whether it reached the room calibration block     *)
(* and whether it passed a sample to updateRoomCalibration.                *)
(***************************************************************************)
DEBOUNCE_MS                 == Ms(120)
WIPE_HOLD_MS                == Ms(20000)
HOLLY_HOP_DURATION_MS       == Ms(30 * 60 * 1000)
HOP_STAGE_MS                == Ms(250)    \* written, never compared
SILENCE_DURATION_MS         == Ms(300000)
SLEEP_DB_THRESHOLD          == 300
WAKE_DB_THRESHOLD           == 230
QUIET_REWARD_MS             == Ms(120000)
REWARD_DURATION_MS          == Ms(3000)
REWARD_LOG_WINDOW_MS        == Ms(130000)
REWARD_COOLDOWN_MS          == Ms(180000)
SPIKE_PENALTY_MS            == Ms(120000)
MIN_LESSON_BEFORE_REWARD_MS == Ms(120000)
REWARD_BREAK_MARGIN_DB      == 15
REWARD_SPIKE_MARGIN_DB      == 80
postInterval                == Ms(60000)

Globals ==
  [running |-> running,
   lastButtonState |-> lastButtonState, buttonPressStart |-> buttonPressStart,
   wipeTriggered |-> wipeTriggered, lastToggleAt |-> lastToggleAt,
   deviceMode |-> deviceMode, hollyHopEndAt |-> hollyHopEndAt,
   hopStage |-> hopStage, hopPendingExit |-> hopPendingExit,
   hopStageUntil |-> hopStageUntil,
   inSleepMode |-> inSleepMode, silenceStart |-> silenceStart,
   lastWs |-> lastWs, lessonStartMs |-> lessonStartMs, avgDB |-> avgDB,
   quietStartMs |-> quietStartMs, rewardStartMs |-> rewardStartMs,
   rewardShowing |-> rewardShowing,
   rewardActiveForLog |-> rewardActiveForLog,
   rewardLogUntilMs |-> rewardLogUntilMs,
   rewardCooldownUntilMs |-> rewardCooldownUntilMs,
   penaltyUntilMs |-> penaltyUntilMs,
   needsResetAboveGood |-> needsResetAboveGood,
   granted |-> FALSE, branch |-> "none",
   cal |-> Calibration, nowEpoch |-> 0, calRan |-> FALSE,
   sampled |-> FALSE]

(***************************************************************************)
(* Button handling: release edge, debounced press edge (toggles Holly      *)
(* Hop), 20 s hold (wipes the Wi-Fi settings and restarts).                *)
(***************************************************************************)
enterHollyHop(s, now) ==
  IF s.deviceMode = MODE_HOLLY_HOP THEN s
  ELSE [s EXCEPT !.deviceMode = MODE_HOLLY_HOP,
                 !.hollyHopEndAt = Add32(now, HOLLY_HOP_DURATION_MS),
                 !.hopStage = HOP_ENTERING,
                 !.hopPendingExit = FALSE,
                 !.hopStageUntil = Add32(now, HOP_STAGE_MS)]

beginExitHollyHop(s, now) ==
  IF s.deviceMode # MODE_HOLLY_HOP THEN s
  ELSE [s EXCEPT !.hopStage = HOP_EXITING,
                 !.hopPendingExit = TRUE,
                 !.hopStageUntil = Add32(now, HOP_STAGE_MS)]

ToggleHollyHop(s, now) ==
  IF s.deviceMode = MODE_HOLLY_HOP THEN beginExitHollyHop(s, now)
  ELSE enterHollyHop(s, now)

ButtonRelease(s, currentButtonState) ==
  IF currentButtonState = HIGH /\ s.lastButtonState = LOW
  THEN [s EXCEPT !.buttonPressStart = 0, !.wipeTriggered = FALSE]
  ELSE s

ButtonPress(s, now, currentButtonState) ==
  IF /\ currentButtonState = LOW /\ s.lastButtonState = HIGH
     /\ Sub32(now, s.lastToggleAt) >= DEBOUNCE_MS
  THEN ToggleHollyHop([s EXCEPT !.buttonPressStart = now,
                                !.wipeTriggered = FALSE,
                                !.lastToggleAt = now], now)
  ELSE s

ButtonHold(s, now, currentButtonState) ==
  IF /\ currentButtonState = LOW /\ ~s.wipeTriggered
     /\ s.buttonPressStart # 0
     /\ Sub32(now, s.buttonPressStart) >= WIPE_HOLD_MS
  THEN [s EXCEPT !.wipeTriggered = TRUE, !.running = FALSE]
  ELSE s

ButtonHandling(s, now, currentButtonState) ==
  ButtonHold(ButtonPress(ButtonRelease(s, currentButtonState),
                         now, currentButtonState),
             now, currentButtonState)

(***************************************************************************)
(* Lesson transition and sleep detection                                   *)
(***************************************************************************)
\* mutant of LessonTransition: a new lesson starts with a clean slate
LessonTransition_cleanSlate(s, now, ws) ==
  IF ws = LESSON /\ s.lastWs # LESSON
  THEN [s EXCEPT !.lessonStartMs = now, !.quietStartMs = 0, !.lastWs = ws,
                 !.rewardCooldownUntilMs = 0, !.penaltyUntilMs = 0,
                 !.needsResetAboveGood = FALSE]
  ELSE [s EXCEPT !.lastWs = ws]

LessonTransition(s, now, ws) ==
  IF ws = LESSON /\ s.lastWs # LESSON
  THEN [s EXCEPT !.lessonStartMs = now, !.quietStartMs = 0, !.lastWs = ws]
  ELSE [s EXCEPT !.lastWs = ws]

SilenceTimer(s, now, avg) ==
  IF avg < SLEEP_DB_THRESHOLD
  THEN [s EXCEPT !.silenceStart = IF @ = 0 THEN now ELSE @]
  ELSE [s EXCEPT !.silenceStart = 0]

FallAsleep(s, now, avg) ==
  IF /\ avg < SLEEP_DB_THRESHOLD /\ ~s.inSleepMode
     /\ Sub32(now, s.silenceStart) >= SILENCE_DURATION_MS
  THEN [s EXCEPT !.inSleepMode = TRUE]
  ELSE s

WakeUp(s, avg) ==
  IF avg >= WAKE_DB_THRESHOLD /\ s.inSleepMode
  THEN [s EXCEPT !.inSleepMode = FALSE]
  ELSE s

SleepDetection(s, now, avg) ==
  WakeUp(FallAsleep(SilenceTimer(s, now, avg), now, avg), avg)

(***************************************************************************)
(* Room calibration block of loop(): automatic start of the window, one    *)
(* sample a minute, finalization, adoption of the calibrated thresholds.   *)
(* The later millis() reads of the block are taken equal to the first.     *)
(***************************************************************************)
\* mutant of AutoStart: the start epoch is not written to the preferences
AutoStart_unsaved(c, nowEpoch) ==
  IF /\ c.roomCalEnabled /\ ~c.roomCalComplete
     /\ ~hasValidTime(c.roomCalStartEpoch) /\ hasValidTime(nowEpoch)
  THEN [c EXCEPT !.roomCalStartEpoch = nowEpoch]
  ELSE c

AutoStart(c, nowEpoch) ==
  IF /\ c.roomCalEnabled /\ ~c.roomCalComplete
     /\ ~hasValidTime(c.roomCalStartEpoch) /\ hasValidTime(nowEpoch)
  THEN [c EXCEPT !.roomCalStartEpoch = nowEpoch,
                 !.preferences = Put(@, "rc_start", nowEpoch)]
  ELSE c

\* mutant of TakeSample: the statistics are not written to the preferences
TakeSample_unsaved(c, now, avg) ==
  [updateRoomCalibration(c, avg) EXCEPT !.lastCalSampleMs = now]

TakeSample(c, now, avg) ==
  PutStats([updateRoomCalibration(c, avg) EXCEPT !.lastCalSampleMs = now])

\* mutant of SampleDue: a sample is taken while a reward is showing
SampleDue_duringReward(c, s, now) ==
  /\ calibrationWindowActive(c, s.nowEpoch)
  /\ s.deviceMode = MODE_NORMAL
  /\ Sub32(now, c.lastCalSampleMs) >= postInterval

SampleDue(c, s, now) ==
  /\ calibrationWindowActive(c, s.nowEpoch)
  /\ ~s.rewardShowing /\ s.deviceMode = MODE_NORMAL
  /\ Sub32(now, c.lastCalSampleMs) >= postInterval

AdoptCalibrated(c) ==
  IF c.roomCalEnabled /\ c.roomCalComplete
  THEN [c EXCEPT !.CAL_TH = applyGuardrails(@, c.yearBand),
                 !.ACTIVE_TH = applyGuardrails(c.CAL_TH, c.yearBand)]
  ELSE c

AfterSampling(c, nowEpoch) ==
  AdoptCalibrated(finalizeRoomCalibrationIfDue(c, nowEpoch))

Sampling(s, c, now, avg) ==
  IF SampleDue(c, s, now)
  THEN [s EXCEPT !.cal = AfterSampling(TakeSample(c, now, avg), s.nowEpoch),
                 !.calRan = TRUE, !.sampled = TRUE]
  ELSE [s EXCEPT !.cal = AfterSampling(c, s.nowEpoch), !.calRan = TRUE]

RoomCalibration(s, now, avg) ==
  Sampling(s, AutoStart(s.cal, s.nowEpoch), now, avg)

(***************************************************************************)
(* Quiet reward logic                                                      *)
(***************************************************************************)
goodDb  == ACTIVE_TH.greenMax
breakDb == goodDb + REWARD_BREAK_MARGIN_DB
spikeDb == goodDb + REWARD_SPIKE_MARGIN_DB

\* the same three levels inside an iteration, after its calibration block
GoodDb(s)  == s.cal.ACTIVE_TH.greenMax
BreakDb(s) == GoodDb(s) + REWARD_BREAK_MARGIN_DB
SpikeDb(s) == GoodDb(s) + REWARD_SPIKE_MARGIN_DB

\* mutant of GrantReward: the above-good flag is not set by a grant
GrantReward_keepsFlag(s, now) ==
  [s EXCEPT !.rewardCooldownUntilMs = Add32(now, REWARD_COOLDOWN_MS),
            !.rewardActiveForLog = TRUE,
            !.rewardLogUntilMs = Add32(now, REWARD_LOG_WINDOW_MS),
            !.rewardShowing = TRUE, !.rewardStartMs = now,
            !.quietStartMs = 0, !.granted = TRUE, !.branch = "grant"]

\* mutant of GrantReward: neither cooldown nor above-good flag after a grant
GrantReward_noLockout(s, now) ==
  [s EXCEPT !.rewardActiveForLog = TRUE,
            !.rewardLogUntilMs = Add32(now, REWARD_LOG_WINDOW_MS),
            !.rewardShowing = TRUE, !.rewardStartMs = now,
            !.quietStartMs = 0, !.granted = TRUE, !.branch = "grant"]

GrantReward(s, now) ==
  [s EXCEPT !.rewardCooldownUntilMs = Add32(now, REWARD_COOLDOWN_MS),
            !.needsResetAboveGood = TRUE,
            !.rewardActiveForLog = TRUE,
            !.rewardLogUntilMs = Add32(now, REWARD_LOG_WINDOW_MS),
            !.rewardShowing = TRUE, !.rewardStartMs = now,
            !.quietStartMs = 0, !.granted = TRUE, !.branch = "grant"]

\* mutant of StreakDue: the streak must exceed the required duration
StreakDue_strict(s, now) ==
  IF Sub32(now, s.quietStartMs) > QUIET_REWARD_MS
  THEN GrantReward(s, now)
  ELSE [s EXCEPT !.branch = "streak"]

StreakDue(s, now) ==
  IF Sub32(now, s.quietStartMs) >= QUIET_REWARD_MS
  THEN GrantReward(s, now)
  ELSE [s EXCEPT !.branch = "streak"]

\* mutant of BuildStreak: any average above goodDb breaks the streak
BuildStreak_noHoverBand(s, now, avg) ==
  IF avg <= GoodDb(s)
  THEN StreakDue([s EXCEPT !.quietStartMs = IF @ = 0 THEN now ELSE @], now)
  ELSE [s EXCEPT !.quietStartMs = 0, !.branch = "break"]

\* mutant of BuildStreak: no average breaks the streak
BuildStreak_neverBreaks(s, now, avg) ==
  IF avg <= GoodDb(s)
  THEN StreakDue([s EXCEPT !.quietStartMs = IF @ = 0 THEN now ELSE @], now)
  ELSE [s EXCEPT !.branch = "hover"]

BuildStreak(s, now, avg) ==
  IF avg <= GoodDb(s)
  THEN StreakDue([s EXCEPT !.quietStartMs = IF @ = 0 THEN now ELSE @], now)
  ELSE IF avg >= BreakDb(s)
       THEN [s EXCEPT !.quietStartMs = 0, !.branch = "break"]
       ELSE [s EXCEPT !.branch = "hover"]

ResetAboveGood(s, avg) ==
  IF s.needsResetAboveGood
  THEN IF avg > GoodDb(s)
       THEN [s EXCEPT !.needsResetAboveGood = FALSE]
       ELSE [s EXCEPT !.quietStartMs = 0, !.branch = "needsReset"]
  ELSE s

StreakIfAllowed(s, now, avg) ==
  IF ~s.needsResetAboveGood THEN BuildStreak(s, now, avg) ELSE s

LockedOut(s, now) ==
  now < s.rewardCooldownUntilMs \/ now < s.penaltyUntilMs

Lockouts(s, now, avg) ==
  IF LockedOut(s, now)
  THEN [s EXCEPT !.quietStartMs = 0, !.branch = "lockout"]
  ELSE StreakIfAllowed(ResetAboveGood(s, avg), now, avg)

ClearAboveGood(s, avg) ==
  IF avg > GoodDb(s) THEN [s EXCEPT !.needsResetAboveGood = FALSE] ELSE s

\* mutant of SpikePenalty: the above-good flag is left as it was
SpikePenalty_leavesFlag(s, now) ==
  [s EXCEPT !.penaltyUntilMs = Add32(now, SPIKE_PENALTY_MS),
            !.quietStartMs = 0, !.branch = "spike"]

\* mutant of SpikePenalty: the streak timer is left as it was
SpikePenalty_keepsStreak(s, now) ==
  [s EXCEPT !.penaltyUntilMs = Add32(now, SPIKE_PENALTY_MS),
            !.needsResetAboveGood = TRUE, !.branch = "spike"]

SpikePenalty(s, now) ==
  [s EXCEPT !.penaltyUntilMs = Add32(now, SPIKE_PENALTY_MS),
            !.quietStartMs = 0,
            !.needsResetAboveGood = TRUE, !.branch = "spike"]

AfterMinLesson(s, now, avg) ==
  IF avg >= SpikeDb(s)
  THEN SpikePenalty(s, now)
  ELSE Lockouts(ClearAboveGood(s, avg), now, avg)

\* mutant of QuietRewardLogic: no minimum lesson time
QuietRewardLogic_fromLessonStart(s, now, avg) == AfterMinLesson(s, now, avg)

QuietRewardLogic(s, now, avg) ==
  IF Sub32(now, s.lessonStartMs) < MIN_LESSON_BEFORE_REWARD_MS
  THEN [s EXCEPT !.quietStartMs = 0, !.branch = "minLesson"]
  ELSE AfterMinLesson(s, now, avg)

(***************************************************************************)
(* Reward animation and the telemetry window, then the whole iteration.    *)
(* The second millis() of the iteration (the animation's t) is taken equal *)
(* to the first.  The microphone and the rolling buffer are an input (the  *)
(* average computed on this iteration); the LED path, Wi-Fi watchdog and   *)
(* periodic logging write none of the variables modelled here.             *)
(***************************************************************************)
RewardLogExpiry(s, now) ==
  IF s.rewardActiveForLog /\ Sub32(now, s.rewardLogUntilMs) < U32 \div 2
  THEN [s EXCEPT !.rewardActiveForLog = FALSE]
  ELSE s

RewardAnimation(s, t) ==
  IF s.rewardShowing
  THEN IF Sub32(t, s.rewardStartMs) < REWARD_DURATION_MS
       THEN s
       ELSE RewardLogExpiry([s EXCEPT !.rewardShowing = FALSE,
                                      !.quietStartMs = 0], t)
  ELSE RewardLogExpiry(s, t)

AfterRewardLogic(s, now) ==
  IF s.granted THEN s ELSE RewardAnimation(s, now)

\* mutant of RewardStage: the reward logic also runs while a reward shows
RewardStage_whileShowing(s, now, avg) ==
  IF s.deviceMode = MODE_NORMAL
  THEN AfterRewardLogic(QuietRewardLogic(s, now, avg), now)
  ELSE RewardAnimation(s, now)

RewardStage(s, now, avg) ==
  IF ~s.rewardShowing /\ s.deviceMode = MODE_NORMAL
  THEN AfterRewardLogic(QuietRewardLogic(s, now, avg), now)
  ELSE RewardAnimation(s, now)

AwakeLesson(s, now, avg) ==
  IF s.inSleepMode THEN s
  ELSE RewardStage(RoomCalibration(s, now, avg), now, avg)

LessonWindow(s, now, avg) ==
  AwakeLesson(SleepDetection(s, now, avg), now, avg)

WindowBehaviour(s, now, avg) ==
  IF s.lastWs = LESSON THEN LessonWindow(s, now, avg) ELSE s

AfterButton(s, now, currentButtonState, ws, avg) ==
  IF ~s.running THEN s
  ELSE WindowBehaviour(
         LessonTransition([s EXCEPT !.lastButtonState = currentButtonState,
                                    !.avgDB = avg], now, ws),
         now, avg)

loop(s, now, currentButtonState, ws, avg) ==
  AfterButton(ButtonHandling(s, now, currentButtonState),
              now, currentButtonState, ws, avg)

(***************************************************************************)
(* One iteration of loop() as an action.  Its inputs are the time since    *)
(* the previous iteration, the button level, the wall clock and the        *)
(* rolling average.                                                        *)
(***************************************************************************)
Observe(s, now, avg) ==
  [branch  |-> s.branch,
   granted |-> s.granted,
   rewards |-> IF s.granted THEN obs.rewards + 1 ELSE obs.rewards,
   aboveSinceReward |->
     IF s.granted THEN FALSE
     ELSE obs.aboveSinceReward \/ (s.running /\ avg > goodDb),
   spikeAt |->
     IF s.running /\ s.lastWs = LESSON /\ avg >= spikeDb
     THEN now ELSE obs.spikeAt,
   penalisedAt |-> IF s.branch = "spike" THEN now ELSE obs.penalisedAt,
   streakWas |-> quietStartMs # 0,
   lessonAt |-> IF s.running /\ s.lastWs = LESSON /\ lastWs # LESSON
                THEN now ELSE obs.lessonAt]

\* the time since the last sample, up to the sampling interval
GapAfter(dt) ==
  IF calObs.gap + dt >= postInterval THEN postInterval ELSE calObs.gap + dt

ObserveCalibration(s, now) ==
  [op |-> "loop", nowEpoch |-> s.nowEpoch, calRan |-> s.calRan,
   sampled |-> s.sampled,
   finalized |-> s.cal.roomCalComplete /\ ~roomCalComplete,
   gap |-> IF s.sampled THEN 0 ELSE GapAfter(Sub32(now, nowMs)),
   boots |-> calObs.boots, sameConfig |-> TRUE,
   discarded |-> <<>>]

CalGlobalsBecome(c) ==
  /\ yearBand' = c.yearBand /\ ACTIVE_TH' = c.ACTIVE_TH /\ CAL_TH' = c.CAL_TH
  /\ roomCalEnabled' = c.roomCalEnabled
  /\ roomCalComplete' = c.roomCalComplete
  /\ roomCalStartEpoch' = c.roomCalStartEpoch
  /\ calCount' = c.calCount /\ calMean' = c.calMean /\ calM2' = c.calM2
  /\ calMinDb' = c.calMinDb /\ calMaxDb' = c.calMaxDb
  /\ lastCalSampleMs' = c.lastCalSampleMs
  /\ preferences' = c.preferences

Commit(s, now, avg) ==
  /\ nowMs' = now
  /\ running' = s.running
  /\ lastButtonState' = s.lastButtonState
  /\ buttonPressStart' = s.buttonPressStart
  /\ wipeTriggered' = s.wipeTriggered
  /\ lastToggleAt' = s.lastToggleAt
  /\ deviceMode' = s.deviceMode
  /\ hollyHopEndAt' = s.hollyHopEndAt
  /\ hopStage' = s.hopStage
  /\ hopPendingExit' = s.hopPendingExit
  /\ hopStageUntil' = s.hopStageUntil
  /\ inSleepMode' = s.inSleepMode
  /\ silenceStart' = s.silenceStart
  /\ lastWs' = s.lastWs
  /\ lessonStartMs' = s.lessonStartMs
  /\ avgDB' = s.avgDB
  /\ quietStartMs' = s.quietStartMs
  /\ rewardStartMs' = s.rewardStartMs
  /\ rewardShowing' = s.rewardShowing
  /\ rewardActiveForLog' = s.rewardActiveForLog
  /\ rewardLogUntilMs' = s.rewardLogUntilMs
  /\ rewardCooldownUntilMs' = s.rewardCooldownUntilMs
  /\ penaltyUntilMs' = s.penaltyUntilMs
  /\ needsResetAboveGood' = s.needsResetAboveGood
  /\ obs' = Observe(s, now, avg)
  /\ CalGlobalsBecome(s.cal)
  /\ calObs' = ObserveCalibration(s, now)

LoopAt(dt, currentButtonState, ws, nowEpoch, avg) ==
  /\ running
  /\ Commit(loop([Globals EXCEPT !.nowEpoch = nowEpoch], Add32(nowMs, dt),
                 currentButtonState, ws, avg),
            Add32(nowMs, dt), avg)
  /\ UNCHANGED <<schedVars, calls, micVars, statCall, ioVars>>

\* an iteration whose time(NULL) is not read (room calibration disabled)
LoopStep(dt, currentButtonState, ws, avg) ==
  LoopAt(dt, currentButtonState, ws, 0, avg)

(***************************************************************************)
(* The rest of an iteration: the microphone sample every 200 ms, the LED   *)
(* smoothing it triggers, the colour zone, the Wi-Fi status and the        *)
(* periodic telemetry record of a lesson.  Nothing of the reward logic or  *)
(* of room calibration reads what these steps write, so LoopAt leaves them *)
(* out and LoopFullAt is LoopAt together with them.  The smoothed level is *)
(* kept to the nearest tenth of a decibel.  A record is emitted before the *)
(* iteration's sleep detection and reward logic, so it reports sleep mode  *)
(* and the reward flag as the previous iteration left them.                *)
(***************************************************************************)
SAMPLE_INTERVAL_MS == Ms(200)
LED_SMOOTH_ALPHA   == 8          \* 0.08, in hundredths

Display ==
  [lastSampleTime |-> lastSampleTime,
   hasNewSampleForLed |-> hasNewSampleForLed,
   ledDB |-> ledDB, currentZone |-> currentZone,
   lastPostTime |-> lastPostTime, internetConnected |-> internetConnected,
   sampled |-> FALSE, smoothed |-> FALSE,
   posted |-> FALSE, quiet_reward |-> FALSE]

MicSample(d, now) ==
  IF Sub32(now, d.lastSampleTime) >= SAMPLE_INTERVAL_MS
  THEN [d EXCEPT !.lastSampleTime = now, !.hasNewSampleForLed = TRUE,
                 !.sampled = TRUE]
  ELSE d

Smoothed(led, avg) ==
  ((100 - LED_SMOOTH_ALPHA) * led + LED_SMOOTH_ALPHA * avg + 50) \div 100

\* mutant of LedSmoothing: the level is smoothed on every iteration
LedSmoothing_everyIteration(d, avg) ==
  [d EXCEPT !.ledDB = Smoothed(@, avg), !.hasNewSampleForLed = FALSE,
            !.smoothed = TRUE]

LedSmoothing(d, avg) ==
  IF d.hasNewSampleForLed
  THEN [d EXCEPT !.ledDB = Smoothed(@, avg), !.hasNewSampleForLed = FALSE,
                 !.smoothed = TRUE]
  ELSE d

ZoneUpdate(d) ==
  [d EXCEPT !.currentZone = applyStickyHysteresis(@, d.ledDB)]

WifiStatus(d, wifiNow) == [d EXCEPT !.internetConnected = wifiNow]

PeriodicLogging(d, now, ws) ==
  IF /\ ws = LESSON
     /\ d.internetConnected /\ ~inSleepMode
     /\ Sub32(now, d.lastPostTime) >= postInterval
  THEN [d EXCEPT !.lastPostTime = now, !.posted = TRUE,
                 !.quiet_reward = rewardActiveForLog]
  ELSE d

InputOutput(d, now, ws, avg, wifiNow) ==
  PeriodicLogging(
    WifiStatus(ZoneUpdate(LedSmoothing(MicSample(d, now), avg)), wifiNow),
    now, ws)

IoCommit(d) ==
  /\ lastSampleTime' = d.lastSampleTime
  /\ hasNewSampleForLed' = d.hasNewSampleForLed
  /\ ledDB' = d.ledDB /\ currentZone' = d.currentZone
  /\ lastPostTime' = d.lastPostTime
  /\ internetConnected' = d.internetConnected
  /\ ioObs' = [sampled |-> d.sampled,
               samples |-> ioObs.samples + (IF d.sampled THEN 1 ELSE 0),
               updates |-> ioObs.updates + (IF d.smoothed THEN 1 ELSE 0),
               posted |-> d.posted, quiet_reward |-> d.quiet_reward,
               aboveAgo |-> ioObs.aboveAgo, breakAgo |-> ioObs.breakAgo,
               noisyAgo |-> ioObs.noisyAgo]

\* a whole iteration; one that restarts the device stops at ESP.restart()
LoopFullAt(dt, currentButtonState, ws, nowEpoch, avg, wifiNow) ==
  /\ running
  /\ Commit(loop([Globals EXCEPT !.nowEpoch = nowEpoch], Add32(nowMs, dt),
                 currentButtonState, ws, avg),
            Add32(nowMs, dt), avg)
  /\ IF ButtonHandling(Globals, Add32(nowMs, dt), currentButtonState).running
     THEN IoCommit(InputOutput(Display, Add32(nowMs, dt), ws, avg, wifiNow))
     ELSE IoCommit(Display)
  /\ UNCHANGED <<schedVars, calls, micVars, statCall>>

(***************************************************************************)
(* Runs of the loop from power-on.  The iterations of a run are equally    *)
(* spaced.  In Spec they are a minute apart and the rolling average is     *)
(* silent (below the wake threshold), exactly goodDb, just above goodDb or *)
(* exactly spikeDb.  In SpecHalfMinute they are half a minute apart and    *)
(* the average is exactly goodDb, just above it, exactly breakDb or        *)
(* exactly spikeDb.  The wall clock (Monday 09:00, a lesson, or Monday     *)
(* 10:35, the break) is free on every iteration; the button is pressed at  *)
(* most once in a run and may then be held or released.                    *)
(***************************************************************************)
TickMs       == 60000
MaxTicks     == 10
HalfTickMs   == 30000
MaxHalfTicks == 12
SilentDb     == 220

LoopBands        == {"Y2Y3"}
Clocks           == {<<1, 9, 0>>, <<1, 10, 35>>}
AvgInputs        == {SilentDb, goodDb, goodDb + 5, spikeDb}
HalfMinuteInputs == {goodDb, goodDb + 5, breakDb, spikeDb}
Presses   == IF lastToggleAt = 0 THEN {HIGH, LOW} ELSE {lastButtonState, HIGH}

Init ==
  /\ yearBand \in LoopBands
  /\ ACTIVE_TH = applyGuardrails(thresholdsForBand(yearBand), yearBand)
  /\ useTimetable = TRUE /\ timetable = DefaultTimetable
  /\ guardCall = NoCall /\ hysCall = NoCall /\ schedCall = NoCall
  /\ PoweredOn
  /\ CalibrationOff

TickIn(dt, ws, avgs) ==
  \E b \in Presses, avg \in avgs : LoopStep(dt, b, ws, avg)

TickAfter(dt, avgs) ==
  /\ \E clock \in Clocks :
       TickIn(dt, getWindowState(clock[1], clock[2], clock[3]), avgs)
  /\ UNCHANGED feedStartMs

LessonStep(steps, avgs) ==
  LET ws == getWindowState(1, 9, 0)
  IN  \E dt \in steps, avg \in avgs : LoopStep(dt, HIGH, ws, avg)

Uptime == Sub32(nowMs, BOOT_STANDBY_MS)

Tick == Uptime < MaxTicks * Ms(TickMs) /\ TickAfter(Ms(TickMs), AvgInputs)

Next == Tick

Spec == Init /\ [][Next]_vars

HalfMinuteTick ==
  /\ Uptime < MaxHalfTicks * Ms(HalfTickMs)
  /\ TickAfter(Ms(HalfTickMs), HalfMinuteInputs)

HalfMinuteNext == HalfMinuteTick

SpecHalfMinute == Init /\ [][HalfMinuteNext]_vars

(***************************************************************************)
(* Runs across the rollover of the millisecond counter, 49.7 days after    *)
(* power-on.  They start from the state that half-minute iterations reach  *)
(* from Init when the lesson never ends, the button is never pressed and   *)
(* the average stays just above goodDb (nothing but the clock changes),    *)
(* eight iterations before the counter wraps; they go on with a lesson on  *)
(* every iteration, the button untouched and any average.                  *)
(***************************************************************************)
MaxRolloverTicks == 12

RolloverStart ==
  BOOT_STANDBY_MS
    + ((U32 - BOOT_STANDBY_MS) \div Ms(HalfTickMs) - 8) * Ms(HalfTickMs)

RolloverInit ==
  /\ yearBand \in LoopBands
  /\ ACTIVE_TH = applyGuardrails(thresholdsForBand(yearBand), yearBand)
  /\ useTimetable = TRUE /\ timetable = DefaultTimetable
  /\ guardCall = NoCall /\ hysCall = NoCall /\ schedCall = NoCall
  /\ StaticInitialisers
  /\ nowMs = RolloverStart
  /\ lastWs = LESSON /\ lessonStartMs = BOOT_STANDBY_MS + Ms(HalfTickMs)
  /\ avgDB = goodDb + 5
  /\ obs = [NoObs EXCEPT !.branch = "hover", !.aboveSinceReward = TRUE,
                         !.lessonAt = lessonStartMs]
  /\ CalibrationOff

RolloverTick ==
  /\ Sub32(nowMs, RolloverStart) < MaxRolloverTicks * Ms(HalfTickMs)
  /\ LessonStep({Ms(HalfTickMs)}, HalfMinuteInputs)
  /\ UNCHANGED feedStartMs

RolloverNext == RolloverTick

SpecRollover == RolloverInit /\ [][RolloverNext]_vars

(***************************************************************************)
(* C2: after a reward has been granted, no second reward is granted on any *)
(* later iteration unless the rolling average was strictly above goodDb on *)
(* at least one iteration in between, however much time has passed.        *)
(***************************************************************************)
C2_NoRepeatUntilAboveGood ==
  [][(obs'.granted /\ obs.rewards >= 1) => obs.aboveSinceReward]_vars

C2_Witness ==
  /\ obs.granted /\ obs.rewards >= 2
  /\ Sub32(nowMs, BOOT_STANDBY_MS) >= 2 * QUIET_REWARD_MS + REWARD_COOLDOWN_MS

(***************************************************************************)
(* C3 as stated: on any Lesson iteration on which the rolling average is   *)
(* at or above spikeDb, the streak timer is zero at the end of the         *)
(* iteration.                                                              *)
(***************************************************************************)
C3_SpikeResetsStreak ==
  (Uptime > 0 /\ lastWs = LESSON /\ avgDB >= spikeDb) => quietStartMs = 0

(***************************************************************************)
(* C3 amended: on any Lesson iteration in normal mode (Holly Hop not       *)
(* active) on which the rolling average is at or above spikeDb, the streak *)
(* timer is zero at the end of the iteration, including when a streak was  *)
(* already in progress.                                                    *)
(***************************************************************************)
C3_SpikeResetsStreakInNormalMode ==
  (Uptime > 0 /\ lastWs = LESSON /\ avgDB >= spikeDb
     /\ deviceMode = MODE_NORMAL)
  => quietStartMs = 0

C3_Witness ==
  /\ lastWs = LESSON /\ avgDB >= spikeDb /\ deviceMode = MODE_NORMAL
  /\ obs.branch = "spike" /\ obs.streakWas /\ quietStartMs = 0

(***************************************************************************)
(* C4: after any Lesson iteration on which the average is at or above      *)
(* spikeDb, on every iteration of the next 120 s the streak timer is zero  *)
(* and no reward is granted, whatever averages are fed.                    *)
(***************************************************************************)
C4_LockoutAfterSpike ==
  (obs.spikeAt # -1 /\ Sub32(nowMs, obs.spikeAt) < SPIKE_PENALTY_MS)
  => (quietStartMs = 0 /\ ~obs.granted)

(***************************************************************************)
(* The quiet-feed scenario: a Monday 09:00 lesson from the first           *)
(* iteration, the button never pressed.  A warm-up of zero or more         *)
(* iterations with the average just above goodDb (no streak, cooldown,     *)
(* penalty or above-good flag results), then the constant quiet average    *)
(* for 121 s, one or two seconds between iterations, then a few seconds    *)
(* of quiet or of shouting.                                                *)
(***************************************************************************)
FeedDb       == 400
FeedMs       == 121000
FeedTickMs   == 1000
WarmTickMs   == 30000
MaxWarmTicks == 5
TailMs       == 4000

FeedSteps   == {Ms(FeedTickMs), 2 * Ms(FeedTickMs)}
FeedElapsed == Sub32(nowMs, feedStartMs)

WarmUp ==
  /\ feedStartMs = -1 /\ Uptime < MaxWarmTicks * Ms(WarmTickMs)
  /\ LessonStep({Ms(WarmTickMs)}, {goodDb + 5})
  /\ UNCHANGED feedStartMs

Feed ==
  /\ feedStartMs = -1 \/ FeedElapsed < Ms(FeedMs)
  /\ LessonStep(FeedSteps, {FeedDb})
  /\ feedStartMs' = IF feedStartMs = -1 THEN nowMs' ELSE feedStartMs

AfterFeed ==
  /\ feedStartMs # -1
  /\ FeedElapsed >= Ms(FeedMs) /\ FeedElapsed < Ms(FeedMs) + Ms(TailMs)
  /\ LessonStep(FeedSteps, {FeedDb, spikeDb})
  /\ UNCHANGED feedStartMs

FeedNext == WarmUp \/ Feed \/ AfterFeed

SpecQuietFeed == Init /\ [][FeedNext]_vars

OneRewardFromFeed ==
  /\ obs.rewards = (IF FeedElapsed >= QUIET_REWARD_MS THEN 1 ELSE 0)
  /\ obs.rewards = 1 =>
       /\ Sub32(rewardStartMs, feedStartMs) >= QUIET_REWARD_MS
       /\ Sub32(rewardStartMs, feedStartMs)
            < QUIET_REWARD_MS + 2 * Ms(FeedTickMs)
       /\ rewardShowing = (Sub32(nowMs, rewardStartMs) < REWARD_DURATION_MS)
       /\ ~rewardShowing => quietStartMs = 0
  /\ obs.rewards = 0 => ~rewardShowing

MaxCalTicks  == 3
MaxRestarts  == 2
SeedSamples  == 58
SeedDb       == 520
LoudDb       == 510

DAY_SECONDS   == 86400
Unsynced      == 32400
MondayLesson  == 1704704400
FridayBefore  == MondayLesson - 3 * DAY_SECONDS
SaturdayAfter == MondayLesson + 5 * DAY_SECONDS
MondayAfter   == MondayLesson + 7 * DAY_SECONDS

CalEpochs  == {Unsynced, FridayBefore, MondayLesson, SaturdayAfter, MondayAfter}
BootEpochs == {Unsynced, MondayLesson}
CalBands   == {"Y2Y3", "Y4Y6"}

\* localtime() of an epoch in winter: tm_wday, tm_hour, tm_min
localtime(t) ==
  <<((t \div DAY_SECONDS) + 4) % 7, (t % DAY_SECONDS) \div 3600,
    (t % 3600) \div 60>>

Learned ==
  PutThresholds(PutStats(PutWindow(
    [EnableCalibration(LoadCalibration(Put(Erased, "yearBand", "Y2Y3"),
                                       "Y2Y3"), MondayLesson)
     EXCEPT !.calCount = SeedSamples, !.calMean = Whole(SeedDb),
            !.calMinDb = SeedDb, !.calMaxDb = SeedDb]))).preferences

Seeds == {Erased, Learned}

CalInit ==
  /\ useTimetable = TRUE /\ timetable = DefaultTimetable
  /\ guardCall = NoCall /\ hysCall = NoCall /\ schedCall = NoCall
  /\ PoweredOn
  /\ BufferCleared /\ statCall = NoFed
  /\ \E prefs \in Seeds, band \in CalBands, nowEpoch \in BootEpochs :
       /\ CalGlobalsAre(setup(prefs, TRUE, band, nowEpoch))
       /\ calObs = [NoCalObs EXCEPT !.op = "setup", !.nowEpoch = nowEpoch]

CalTickAt(ws, nowEpoch) == LoopAt(Ms(TickMs), HIGH, ws, nowEpoch, LoudDb)

CalTick ==
  /\ Uptime < MaxCalTicks * Ms(TickMs)
  /\ \E nowEpoch \in CalEpochs :
       CalTickAt(getWindowState(localtime(nowEpoch)[1],
                                localtime(nowEpoch)[2],
                                localtime(nowEpoch)[3]), nowEpoch)
  /\ UNCHANGED feedStartMs

\* the globals of loop() and the buffer after a restart: as in PoweredOn
Rebooted ==
  /\ running' = TRUE
  /\ lastButtonState' = HIGH /\ buttonPressStart' = 0
  /\ wipeTriggered' = FALSE /\ lastToggleAt' = 0
  /\ deviceMode' = MODE_NORMAL /\ hollyHopEndAt' = 0 /\ hopStage' = HOP_NONE
  /\ hopPendingExit' = FALSE /\ hopStageUntil' = 0
  /\ inSleepMode' = FALSE /\ silenceStart' = 0
  /\ quietStartMs' = 0 /\ rewardStartMs' = 0 /\ rewardShowing' = FALSE
  /\ rewardActiveForLog' = FALSE /\ rewardLogUntilMs' = 0
  /\ rewardCooldownUntilMs' = 0 /\ penaltyUntilMs' = 0
  /\ needsResetAboveGood' = FALSE
  /\ feedStartMs' = -1
  /\ lastSampleTime' = 0 /\ hasNewSampleForLed' = FALSE
  /\ ledDB' = BASELINE_DB /\ currentZone' = Z_GREEN
  /\ lastPostTime' = 0 /\ internetConnected' = FALSE
  /\ ioObs' = NoIoObs
  /\ nowMs' = BOOT_STANDBY_MS
  /\ lastWs' = OFF /\ lessonStartMs' = BOOT_STANDBY_MS
  /\ avgDB' = BASELINE_DB
  /\ obs' = NoObs
  /\ dbHistory' = clearDBHistory /\ currentIndex' = 0 /\ recorded' = <<>>
  /\ micCall' = NoMicCall

Restart ==
  /\ calObs.boots < MaxRestarts
  /\ Rebooted
  /\ \E newRoomCalEnabled \in BOOLEAN, band \in CalBands,
        nowEpoch \in BootEpochs :
       /\ CalGlobalsBecome(setup(preferences, newRoomCalEnabled, band,
                                 nowEpoch))
       /\ calObs' = [op |-> "setup", nowEpoch |-> nowEpoch,
                     calRan |-> FALSE, sampled |-> FALSE,
                     finalized |-> FALSE,
                     gap |-> GapAfter(BOOT_STANDBY_MS),
                     boots |-> calObs.boots + 1,
                     sameConfig |-> /\ newRoomCalEnabled = roomCalEnabled
                                    /\ band = yearBand,
                     discarded |-> IF newRoomCalEnabled /\ ~roomCalEnabled
                                   THEN <<roomCalComplete, calCount>>
                                   ELSE <<>>]
  /\ UNCHANGED <<schedVars, calls, statCall>>

CalNext == CalTick \/ Restart

SpecRoomCal == CalInit /\ [][CalNext]_vars

(***************************************************************************)
(* C11: when an iteration of loop() finalizes the calibration window with  *)
(* fewer than 60 accumulated samples, the calibrated thresholds and the    *)
(* active thresholds it leaves are both exactly the guardrail-bounded      *)
(* defaults of the current band, whatever the accumulated mean and sum of  *)
(* squares are.                                                            *)
(***************************************************************************)
C11_FewSamplesFallBackToBandDefault ==
  (calObs.finalized /\ calCount < MIN_CAL_SAMPLES) =>
    (CAL_TH = BandDefault(yearBand) /\ ACTIVE_TH = BandDefault(yearBand))

\* a window finalized with 59 samples whose statistics (a mean off the
\* default, a positive sum of squares) would have given other thresholds
C11_Witness ==
  /\ calObs.finalized /\ calCount > 1 /\ calCount < MIN_CAL_SAMPLES
  /\ calM2.num > 0
  /\ applyGuardrails(StatThresholds(calMean, Variance(Calibration)), yearBand)
       # BandDefault(yearBand)
  /\ CAL_TH = BandDefault(yearBand) /\ ACTIVE_TH = CAL_TH

(***************************************************************************)
(* Harness for updateRoomCalibration: after a reset of the statistics, any *)
(* sequence of up to MaxStatSamples finite samples drawn from three        *)
(* levels, with calls passing NaN or an infinity anywhere in between.      *)
(* statCall holds the number of finite samples passed, their sum, the sum  *)
(* of their squares, the smallest and the largest, the argument of the     *)
(* last call and the statistics as they were before it.                    *)
(***************************************************************************)
MaxStatSamples == 6
StatLowDb      == 303
StatMidDb      == 455
StatHighDb     == 612

StatSamples == {StatLowDb, StatMidDb, StatHighDb}

Statistics == <<calCount, calMean, calM2, calMinDb, calMaxDb>>

StatsInit ==
  /\ yearBand = "Y2Y3" /\ ACTIVE_TH = BandDefault(yearBand)
  /\ useTimetable = TRUE /\ timetable = DefaultTimetable
  /\ guardCall = NoCall /\ hysCall = NoCall /\ schedCall = NoCall
  /\ PoweredOn
  /\ CalibrationOff

Fed(x) ==
  IF isfinite(x)
  THEN [n |-> statCall.n + 1, sum |-> statCall.sum + x,
        sumSq |-> statCall.sumSq + x * x,
        lo |-> IF statCall.n = 0 \/ x < statCall.lo THEN x ELSE statCall.lo,
        hi |-> IF statCall.n = 0 \/ x > statCall.hi THEN x ELSE statCall.hi,
        last |-> x, before |-> Statistics]
  ELSE [statCall EXCEPT !.last = x, !.before = Statistics]

StatsBecome(c) ==
  /\ calCount' = c.calCount /\ calMean' = c.calMean /\ calM2' = c.calM2
  /\ calMinDb' = c.calMinDb /\ calMaxDb' = c.calMaxDb

CallUpdateRoomCalibration ==
  /\ statCall.n < MaxStatSamples
  /\ \E x \in StatSamples \cup NonFinite :
       /\ StatsBecome(updateRoomCalibration(Calibration, x))
       /\ statCall' = Fed(x)
  /\ UNCHANGED <<progVars, runVars, windowVars, micVars, calls>>

StatsNext == CallUpdateRoomCalibration

SpecStats == StatsInit /\ [][StatsNext]_vars

(***************************************************************************)
(* C12: after any sequence of calls of updateRoomCalibration since the     *)
(* reset, calCount is the number of finite samples passed, calMean is      *)
(* their arithmetic mean, calM2 / (calCount - 1) is their unbiased sample  *)
(* variance in closed form, (n * sum of squares - (sum)^2) / (n * (n-1)),  *)
(* calMinDb and calMaxDb are the smallest and the largest of them, and a   *)
(* call with a non-finite argument leaves all five as they were.           *)
(***************************************************************************)
C12_RunningStatisticsAreExact ==
  /\ calCount = statCall.n
  /\ calMean = (IF statCall.n = 0 THEN Whole(0)
                ELSE Frac(statCall.sum, statCall.n))
  /\ statCall.n > 1 =>
       FracDiv(calM2, calCount - 1) =
         Frac(statCall.n * statCall.sumSq - statCall.sum * statCall.sum,
              statCall.n * (statCall.n - 1))
  /\ statCall.n > 0 => (calMinDb = statCall.lo /\ calMaxDb = statCall.hi)
  /\ statCall.n = 0 =>
       (calMinDb = CAL_MIN_SENTINEL /\ calMaxDb = CAL_MAX_SENTINEL)
  /\ (statCall.before # <<>> /\ ~isfinite(statCall.last)) =>
       Statistics = statCall.before

\* five samples, not all equal, the last call having passed a non-finite
\* value after them
C12_Witness ==
  /\ statCall.n = 5 /\ calCount = 5
  /\ statCall.lo < statCall.hi /\ calM2.num > 0 /\ calMean.den > 1
  /\ statCall.last \in NonFinite /\ Statistics = statCall.before

(***************************************************************************)
(* C13: roomCalComplete changes from false to true only in an iteration of *)
(* loop() in which calibration is enabled, the clock reading and the start *)
(* epoch are valid, and the clock reading is at least 432000 s after the   *)
(* start epoch, whatever the clock reads.                                  *)
(***************************************************************************)
C13_CompleteOnlyAfterLearningDuration ==
  [][(~roomCalComplete /\ roomCalComplete') =>
       (/\ calObs'.op = "loop" /\ roomCalEnabled'
        /\ hasValidTime(calObs'.nowEpoch)
        /\ hasValidTime(roomCalStartEpoch')
        /\ calObs'.nowEpoch >= roomCalStartEpoch' + ROOM_CAL_SECONDS)]_vars

(***************************************************************************)
(* Sampling for room calibration within one run: iterations half a minute  *)
(* apart with a quiet rolling average (44.0 dB, so that a quiet reward is  *)
(* earned after four minutes of lesson), the button pressed at most once   *)
(* (Holly Hop), and the clock reading unsynchronised, Monday 09:00, the    *)
(* Saturday after it or the Monday after it on every iteration.  The       *)
(* device starts erased or with the 58 stored samples, calibration         *)
(* switched on or off in the portal.                                       *)
(***************************************************************************)
MaxSamplingTicks == 10
QuietDb          == 440

SamplingEpochs == {Unsynced, MondayLesson, SaturdayAfter, MondayAfter}

SamplingInit ==
  /\ useTimetable = TRUE /\ timetable = DefaultTimetable
  /\ guardCall = NoCall /\ hysCall = NoCall /\ schedCall = NoCall
  /\ PoweredOn
  /\ BufferCleared /\ statCall = NoFed
  /\ \E prefs \in Seeds, newRoomCalEnabled \in BOOLEAN,
        nowEpoch \in BootEpochs :
       /\ CalGlobalsAre(setup(prefs, newRoomCalEnabled, "Y2Y3", nowEpoch))
       /\ calObs = [NoCalObs EXCEPT !.op = "setup", !.nowEpoch = nowEpoch]

SamplingTickAt(ws, nowEpoch) ==
  \E b \in Presses : LoopAt(Ms(HalfTickMs), b, ws, nowEpoch, QuietDb)

SamplingTick ==
  /\ Uptime < MaxSamplingTicks * Ms(HalfTickMs)
  /\ \E nowEpoch \in SamplingEpochs :
       SamplingTickAt(getWindowState(localtime(nowEpoch)[1],
                                     localtime(nowEpoch)[2],
                                     localtime(nowEpoch)[3]), nowEpoch)
  /\ UNCHANGED feedStartMs

SamplingNext == SamplingTick

SpecCalSampling == SamplingInit /\ [][SamplingNext]_vars

(***************************************************************************)
(* C14: an iteration of loop() accumulates a calibration sample only if    *)
(* its schedule window is Lesson, calibration is enabled and not complete, *)
(* the clock reading and the start epoch are valid, the clock reading is   *)
(* less than 432000 s after the start epoch, no reward is showing when the *)
(* calibration block runs, the device is in normal mode, and at least 60 s *)
(* have passed since the previous sample was accumulated.                  *)
(***************************************************************************)
C14_SampleOnlyWhenAllowed ==
  [][calObs'.sampled =>
       (/\ lastWs' = LESSON
        /\ roomCalEnabled' /\ ~roomCalComplete /\ ~roomCalComplete'
        /\ hasValidTime(calObs'.nowEpoch)
        /\ hasValidTime(roomCalStartEpoch')
        /\ calObs'.nowEpoch - roomCalStartEpoch' < ROOM_CAL_SECONDS
        /\ ~rewardShowing /\ deviceMode' = MODE_NORMAL
        /\ calCount' = calCount + 1
        /\ calObs.gap + Sub32(nowMs', nowMs) >= postInterval)]_vars

\* a fourth sample of the run, a minute after the third
C14_Witness ==
  /\ calObs.sampled /\ calObs.gap = 0
  /\ calCount >= 4 /\ preferences["rc_count"] = <<calCount>>
  /\ lastWs = LESSON /\ deviceMode = MODE_NORMAL
  /\ lastCalSampleMs = nowMs /\ Uptime >= 4 * postInterval

(***************************************************************************)
(* C15: an iteration of loop() whose schedule window is not Lesson, or on  *)
(* which Holly Hop mode is active, leaves the calibration statistics, the  *)
(* complete flag, the calibrated thresholds and the active thresholds      *)
(* unchanged.                                                              *)
(***************************************************************************)
C15_CalibrationSuspendedOutsideLessonAndInHollyHop ==
  [][(calObs'.op = "loop" /\ (lastWs' # LESSON \/ deviceMode' # MODE_NORMAL))
       => UNCHANGED <<statVars, roomCalComplete, CAL_TH, ACTIVE_TH>>]_vars

(***************************************************************************)
(* C16: over iterations of loop() and restarts with any portal settings,   *)
(* calCount changes only by growing by one on an iteration that takes a    *)
(* sample, or by being set to zero in a setup that switches calibration    *)
(* from disabled to enabled; every other step (finalization, auto-start    *)
(* of the window, a restart without that switch) leaves it as it was.      *)
(***************************************************************************)
C16_CountChangesOnlyBySampleOrFreshWindow ==
  [][\/ calCount' = calCount
     \/ /\ calObs'.op = "loop" /\ calObs'.sampled
        /\ roomCalEnabled /\ ~roomCalComplete
        /\ calCount' = calCount + 1
     \/ /\ calObs'.op = "setup" /\ ~roomCalEnabled /\ roomCalEnabled'
        /\ calCount' = 0]_vars

\* the count after a sample, a finalization and then a restart
C16_Witness ==
  /\ calObs.op = "setup" /\ calObs.boots >= 1
  /\ roomCalEnabled /\ roomCalComplete
  /\ calCount = SeedSamples + 1
  /\ preferences["rc_count"] = <<calCount>>

(***************************************************************************)
(* C17: a setup that switches calibration from disabled to enabled starts  *)
(* a fresh window: complete is false, count, mean and M2 are zero, min and *)
(* max are at their sentinels, the start epoch is the clock reading if it  *)
(* is valid and unset otherwise, and the active thresholds are the         *)
(* guardrail-bounded band default.  An unset start epoch becomes the first *)
(* valid clock reading of an awake Lesson iteration, and the active        *)
(* thresholds stay the band default while the window is not complete.      *)
(***************************************************************************)
FreshWindow ==
  /\ ~roomCalComplete /\ calCount = 0
  /\ calMean = Whole(0) /\ calM2 = Whole(0)
  /\ calMinDb = CAL_MIN_SENTINEL /\ calMaxDb = CAL_MAX_SENTINEL
  /\ roomCalStartEpoch = (IF hasValidTime(calObs.nowEpoch) THEN calObs.nowEpoch ELSE 0)
  /\ CAL_TH = BandDefault(yearBand)
  /\ ACTIVE_TH = BandDefault(yearBand)

C17_ReEnableStartsFreshWindow ==
  [][/\ (calObs'.op = "setup" /\ ~roomCalEnabled /\ roomCalEnabled')
          => FreshWindow'
     /\ (/\ calObs'.op = "loop" /\ calObs'.calRan
         /\ roomCalEnabled /\ ~roomCalComplete
         /\ ~hasValidTime(roomCalStartEpoch)
         /\ hasValidTime(calObs'.nowEpoch))
          => roomCalStartEpoch' = calObs'.nowEpoch
     /\ (roomCalEnabled' /\ ~roomCalComplete')
          => ACTIVE_TH' = BandDefault(yearBand')]_vars

\* re-enabled after a window that was completed with 59 samples
C17_Witness ==
  /\ calObs.op = "setup" /\ calObs.discarded = <<TRUE, SeedSamples + 1>>
  /\ roomCalEnabled /\ FreshWindow
  /\ preferences["rc_complete"] = <<FALSE>>

(***************************************************************************)
(* C18: a restart between two iterations of loop() with the portal         *)
(* settings unchanged (same calibration switch, same year band) restores   *)
(* the enabled flag, the complete flag, the start epoch, count, mean, M2,  *)
(* min, max and the calibrated thresholds to their values before the       *)
(* restart.                                                                *)
(***************************************************************************)
C18_CalibrationSurvivesRestart ==
  [][(calObs'.op = "setup" /\ calObs'.sameConfig) =>
       UNCHANGED <<roomCalEnabled, roomCalComplete, roomCalStartEpoch,
                   statVars, CAL_TH>>]_vars

\* restarted in the middle of a window, after an auto-start and a sample
C18_Witness ==
  /\ calObs.op = "setup" /\ calObs.sameConfig /\ calObs.boots >= 1
  /\ roomCalEnabled /\ ~roomCalComplete
  /\ roomCalStartEpoch = MondayLesson
  /\ calCount = 1 /\ calMean = Whole(LoudDb)
  /\ calMinDb = LoudDb /\ calMaxDb = LoudDb

(***************************************************************************)
(* C19 as stated: at the end of setup and of every iteration of loop(),    *)
(* the active thresholds equal the calibrated thresholds exactly when      *)
(* calibration is enabled and complete, and are the guardrail-bounded band *)
(* default otherwise; amberMax >= greenMax + 2 and redWarnDb >= amberMax   *)
(* + 2.                                                                    *)
(***************************************************************************)
GapsKept(th) ==
  /\ th.amberMax >= th.greenMax + GAP_GA
  /\ th.redWarnDb >= th.amberMax + GAP_AR

C19_ActiveIsCalibratedIffComplete ==
  /\ (ACTIVE_TH = CAL_TH) <=> (roomCalEnabled /\ roomCalComplete)
  /\ ~(roomCalEnabled /\ roomCalComplete) =>
       ACTIVE_TH = BandDefault(yearBand)
  /\ GapsKept(ACTIVE_TH)

(***************************************************************************)
(* C19 amended: at the end of setup and of every iteration of loop(), the  *)
(* active thresholds are the calibrated thresholds if calibration is       *)
(* enabled and complete and the guardrail-bounded band default otherwise   *)
(* (the two sets may be equal); the gaps of at least 2 dB hold.            *)
(***************************************************************************)
C19_ActiveIsCalibratedWhenComplete ==
  /\ (roomCalEnabled /\ roomCalComplete) => ACTIVE_TH = CAL_TH
  /\ ~(roomCalEnabled /\ roomCalComplete) =>
       ACTIVE_TH = BandDefault(yearBand)
  /\ GapsKept(ACTIVE_TH)

\* thresholds learned from 60 samples are in use after the window completed
C19_Witness ==
  /\ roomCalEnabled /\ roomCalComplete /\ calCount >= MIN_CAL_SAMPLES
  /\ ACTIVE_TH = CAL_TH /\ ACTIVE_TH # BandDefault(yearBand)
  /\ GapsKept(ACTIVE_TH)

(***************************************************************************)
(* The rolling average on its own: after clearDBHistory(), a sequence of   *)
(* updateRollingAverage calls long enough to go round the 150 slots, of    *)
(* which a few carry NaN or an infinity.  The finite readings are all      *)
(* different within one round: the k-th is 30.0 dB + (37 k mod 401)/10.    *)
(***************************************************************************)
MaxRecords  == 154
MaxIgnored  == 2
MicBaseDb   == 300
MicStep     == 37
MicSpan     == 401

Reading(k) == MicBaseDb + ((MicStep * k) % MicSpan)

Buffer == [dbHistory |-> dbHistory, currentIndex |-> currentIndex]

AveragerInit ==
  /\ yearBand = "Y2Y3" /\ ACTIVE_TH = BandDefault(yearBand)
  /\ useTimetable = TRUE /\ timetable = DefaultTimetable
  /\ guardCall = NoCall /\ hysCall = NoCall /\ schedCall = NoCall
  /\ PoweredOn /\ CalibrationOff

CallUpdateRollingAverage ==
  /\ \E newVal \in {Reading(Len(recorded) + 1)} \cup NonFinite :
       /\ isfinite(newVal) => Len(recorded) < MaxRecords
       /\ ~isfinite(newVal) => micCall.ignored < MaxIgnored
       /\ dbHistory' = updateRollingAverage(Buffer, newVal).dbHistory
       /\ currentIndex' = updateRollingAverage(Buffer, newVal).currentIndex
       /\ recorded' = IF isfinite(newVal) THEN Append(recorded, newVal)
                      ELSE recorded
       /\ micCall' = [newVal |-> newVal,
                      ignored |-> IF isfinite(newVal) THEN micCall.ignored
                                  ELSE micCall.ignored + 1]
  /\ UNCHANGED <<progVars, runVars, calVars, statCall, calls>>

AveragerNext == CallUpdateRollingAverage

SpecAverager == AveragerInit /\ [][AveragerNext]_vars

(***************************************************************************)
(* C20: with k finite samples recorded since clearDBHistory(), slot i      *)
(* holds the latest finite sample written to it (the j-th sample goes to   *)
(* slot (j-1) mod 150), so the buffer holds the most recent min(k,150)     *)
(* finite samples and the other slots hold the baseline 35.0; the write    *)
(* index is k mod 150; a call with NaN or an infinity leaves buffer and    *)
(* index unchanged; calculateAverage() is the sum of those samples and     *)
(* baselines divided by 150.                                               *)
(***************************************************************************)
Kept == IF Len(recorded) < AVG_SAMPLE_COUNT THEN Len(recorded)
        ELSE AVG_SAMPLE_COUNT

\* the number of the latest recorded sample that went to slot i, 0 if none
LatestIn(i) ==
  IF Len(recorded) < i + 1 THEN 0
  ELSE i + 1 + AVG_SAMPLE_COUNT * ((Len(recorded) - (i + 1)) \div AVG_SAMPLE_COUNT)

\* sum of the recorded samples number lo .. hi
RECURSIVE RecordedSum(_, _)
RecordedSum(lo, hi) ==
  IF hi < lo THEN 0
  ELSE IF hi = lo THEN recorded[lo]
  ELSE RecordedSum(lo, (lo + hi) \div 2)
       + RecordedSum((lo + hi) \div 2 + 1, hi)

RecentSum(n) == RecordedSum(Len(recorded) - n + 1, Len(recorded))

BufferHoldsRecent ==
  /\ currentIndex = Len(recorded) % AVG_SAMPLE_COUNT
  /\ \A i \in Slots :
       /\ LatestIn(i) = 0 => dbHistory[i] = BASELINE_DB
       /\ LatestIn(i) > 0 => /\ LatestIn(i) > Len(recorded) - Kept
                             /\ dbHistory[i] = recorded[LatestIn(i)]
  /\ \A j \in (Len(recorded) - Kept + 1)..Len(recorded) :
       dbHistory[(j - 1) % AVG_SAMPLE_COUNT] = recorded[j]
  /\ calculateAverage(dbHistory) =
       Frac(RecentSum(Kept) + (AVG_SAMPLE_COUNT - Kept) * BASELINE_DB,
            AVG_SAMPLE_COUNT)

C20_BufferHoldsMostRecentFiniteSamples ==
  /\ []BufferHoldsRecent
  /\ [][~isfinite(micCall'.newVal) =>
          UNCHANGED <<dbHistory, currentIndex>>]_vars

\* the buffer has gone round: sample 151 replaced sample 1 in slot 0, and
\* the last call carried a non-finite value
C20_Witness ==
  /\ Len(recorded) = AVG_SAMPLE_COUNT + 2 /\ currentIndex = 2
  /\ dbHistory[0] = Reading(AVG_SAMPLE_COUNT + 1)
  /\ dbHistory[2] = Reading(3)
  /\ micCall.newVal \in NonFinite /\ micCall.ignored = 2

(***************************************************************************)
(* The LED path at the pace of the loop: iterations 96 ms or 200 ms apart  *)
(* (a microphone sample is due 200 ms after the last one), in a lesson or  *)
(* in the break, the button pressed at most once, the rolling average at   *)
(* the baseline or loud.                                                   *)
(***************************************************************************)
FastTickMs == 96
MaxLedMs   == 504
LedLoudDb  == 700

LedSteps == {Ms(FastTickMs), SAMPLE_INTERVAL_MS}

LedTick ==
  /\ Uptime < Ms(MaxLedMs)
  /\ \E clock \in Clocks :
       LET ws == getWindowState(clock[1], clock[2], clock[3])
       IN  \E dt \in LedSteps, b \in Presses, avg \in {BASELINE_DB, LedLoudDb} :
             LoopFullAt(dt, b, ws, 0, avg, FALSE)
  /\ UNCHANGED feedStartMs

LedNext == LedTick

SpecLed == Init /\ [][LedNext]_vars

(***************************************************************************)
(* C21: ledDB is smoothed on exactly the iterations on which a microphone  *)
(* sample is taken, and on no other: the number of smoothing updates       *)
(* equals the number of samples after every iteration, in any schedule     *)
(* window and in either mode.                                              *)
(***************************************************************************)
C21_OneSmoothingUpdatePerSample ==
  /\ [](ioObs.updates = ioObs.samples /\ ~hasNewSampleForLed)
  /\ [][/\ ioObs'.sampled <=> ioObs'.updates = ioObs.updates + 1
        /\ ~ioObs'.sampled => (ioObs'.updates = ioObs.updates /\ ledDB' = ledDB)
       ]_vars

\* three samples in several more iterations, in Holly Hop, outside a lesson
C21_Witness ==
  /\ ioObs.samples = 3 /\ ioObs.updates = 3 /\ ~ioObs.sampled
  /\ Uptime >= 6 * Ms(FastTickMs)
  /\ deviceMode = MODE_HOLLY_HOP /\ lastWs # LESSON
  /\ ledDB > BASELINE_DB

(***************************************************************************)
(* C22: while less than 2 min have passed since the last transition into   *)
(* Lesson, the streak timer is zero at the end of every iteration and no   *)
(* reward is granted; a reward is granted no earlier than 2 min + 120 s    *)
(* after that transition.                                                  *)
(***************************************************************************)
SinceLessonBegan == Sub32(nowMs, obs.lessonAt)

C22_NoRewardEarlyInLesson ==
  /\ (lastWs = LESSON /\ SinceLessonBegan < MIN_LESSON_BEFORE_REWARD_MS)
       => (quietStartMs = 0 /\ ~obs.granted)
  /\ obs.granted =>
       (/\ obs.lessonAt # -1
        /\ SinceLessonBegan >= MIN_LESSON_BEFORE_REWARD_MS + QUIET_REWARD_MS)

\* a reward at the earliest moment of a lesson that began after a break
C22_Witness ==
  /\ obs.granted /\ lastWs = LESSON
  /\ obs.lessonAt > BOOT_STANDBY_MS + Ms(HalfTickMs)
  /\ SinceLessonBegan = MIN_LESSON_BEFORE_REWARD_MS + QUIET_REWARD_MS

(***************************************************************************)
(* C23: on every iteration less than 3 min after the last grant of a       *)
(* reward, the streak timer is zero at the end of the iteration and no     *)
(* further reward is granted, whatever the averages, windows and mode.     *)
(***************************************************************************)
SinceGrant == Sub32(nowMs, rewardStartMs)

C23_CooldownAfterGrant ==
  (obs.rewards >= 1 /\ SinceGrant < REWARD_COOLDOWN_MS) =>
    (/\ quietStartMs = 0
     /\ obs.granted => SinceGrant = 0)

(***************************************************************************)
(* C24: an iteration that finds the window Lesson after a window that was  *)
(* not Lesson sets lessonStartMs to now and the streak timer to zero and   *)
(* leaves the cooldown deadline, the penalty deadline and the above-good   *)
(* flag as they were.                                                      *)
(***************************************************************************)
C24_LessonTransitionKeepsLockouts ==
  [][(lastWs # LESSON /\ lastWs' = LESSON) =>
       (/\ lessonStartMs' = nowMs' /\ quietStartMs' = 0
        /\ UNCHANGED <<rewardCooldownUntilMs, penaltyUntilMs,
                       needsResetAboveGood>>)]_vars

\* back in a lesson a minute after a reward, the cooldown still running
C24_Witness ==
  /\ lastWs = LESSON /\ lessonStartMs = nowMs /\ quietStartMs = 0
  /\ obs.rewards >= 1 /\ SinceGrant < REWARD_COOLDOWN_MS
  /\ rewardCooldownUntilMs = Add32(rewardStartMs, REWARD_COOLDOWN_MS)
  /\ nowMs < rewardCooldownUntilMs /\ needsResetAboveGood

(***************************************************************************)
(* C25: the streak branches.  PastGates is the step of an iteration that   *)
(* reaches lines 1380-1406: awake, in a lesson, normal mode, no reward     *)
(* showing, past the minimum lesson time, below the spike level, no        *)
(* cooldown or penalty pending, and the above-good flag clear or cleared   *)
(* by this average.                                                        *)
(***************************************************************************)
PastGates ==
  /\ calObs'.op = "loop" /\ running' /\ lastWs' = LESSON /\ ~inSleepMode'
  /\ deviceMode' = MODE_NORMAL /\ ~rewardShowing
  /\ Sub32(nowMs', lessonStartMs') >= MIN_LESSON_BEFORE_REWARD_MS
  /\ avgDB' < spikeDb'
  /\ ~(nowMs' < rewardCooldownUntilMs) /\ ~(nowMs' < penaltyUntilMs)
  /\ (needsResetAboveGood => avgDB' > goodDb')

StreakStart == IF quietStartMs = 0 THEN nowMs' ELSE quietStartMs

HoverAndBreak ==
  /\ (goodDb' < avgDB' /\ avgDB' < breakDb') => quietStartMs' = quietStartMs
  /\ avgDB' >= breakDb' => quietStartMs' = 0

\* C25 as stated: in the hover band the streak timer is unchanged, at or
\* above breakDb it is zero, at or below goodDb it is started when zero and
\* otherwise kept.
C25_StreakBranches ==
  [][PastGates =>
       (/\ HoverAndBreak
        /\ avgDB' <= goodDb' => quietStartMs' = StreakStart)]_vars

\* C25 amended: at or below goodDb the timer is started when zero and
\* otherwise kept, unless the streak has then lasted 120 s: that iteration
\* grants the reward and sets the timer to zero.
C25_StreakBranchesOrGrant ==
  [][PastGates =>
       (/\ HoverAndBreak
        /\ avgDB' <= goodDb' =>
             IF Sub32(nowMs', StreakStart) >= QUIET_REWARD_MS
             THEN quietStartMs' = 0 /\ obs'.granted
             ELSE quietStartMs' = StreakStart /\ ~obs'.granted)]_vars

\* an average in the hover band with a streak running, which goes on
C25_Witness ==
  /\ obs.branch = "hover" /\ obs.streakWas /\ quietStartMs # 0
  /\ goodDb < avgDB /\ avgDB < breakDb
  /\ Sub32(nowMs, quietStartMs) >= 2 * Ms(HalfTickMs)

\* the steps PastGates describes are those that took a streak branch
PastGatesIsStreakBranch ==
  [][PastGates <=> obs'.branch \in {"hover", "break", "streak", "grant"}]_vars

(***************************************************************************)
(* C26: the reward timers across the wrap of the 32-bit millisecond        *)
(* counter.  With elapsed times taken modulo 2^32: for 3 min after a grant *)
(* and for 2 min after an iteration that set the spike penalty             *)
(* the streak timer is zero and no reward is granted, and a reward is      *)
(* granted only by an iteration that finds a streak begun at least 120 s   *)
(* before.                                                                 *)
(***************************************************************************)
SincePenalty == Sub32(nowMs, obs.penalisedAt)

C26_TimersHonouredAcrossWrap ==
  /\ []((obs.rewards >= 1 /\ 0 < SinceGrant /\ SinceGrant < REWARD_COOLDOWN_MS)
          => (quietStartMs = 0 /\ ~obs.granted))
  /\ []((obs.penalisedAt # -1 /\ SincePenalty < SPIKE_PENALTY_MS)
          => (quietStartMs = 0 /\ ~obs.granted))
  /\ [][obs'.granted =>
          (quietStartMs # 0
             /\ Sub32(nowMs', quietStartMs) >= QUIET_REWARD_MS)]_vars

(***************************************************************************)
(* C27: rewardShowing becomes true only on an iteration that grants a      *)
(* reward; after any iteration 3 s or more after the grant it is false     *)
(* again; and the iteration that clears it leaves the streak timer zero.   *)
(***************************************************************************)
C27_RewardShownForThreeSeconds ==
  /\ [](rewardShowing => SinceGrant < REWARD_DURATION_MS)
  /\ [][(rewardShowing' /\ ~rewardShowing) => obs'.granted]_vars
  /\ [][(rewardShowing /\ ~rewardShowing') => quietStartMs' = 0]_vars

(***************************************************************************)
(* Whole iterations a minute apart from power-on, the button untouched    *)
(* and the Wi-Fi connected: the wall clock (lesson or break) and the       *)
(* rolling average (exactly goodDb, or loud) are free on every iteration.  *)
(* Every iteration takes a microphone sample and every awake lesson        *)
(* iteration emits a telemetry record.                                     *)
(***************************************************************************)
MaxTelemetryTicks == 9

TelemetryInputs == {goodDb, LedLoudDb}

TelemetryTick ==
  /\ Uptime < MaxTelemetryTicks * Ms(TickMs)
  /\ \E clock \in Clocks :
       LET ws == getWindowState(clock[1], clock[2], clock[3])
       IN  \E avg \in TelemetryInputs :
             LoopFullAt(Ms(TickMs), HIGH, ws, 0, avg, TRUE)
  /\ UNCHANGED feedStartMs

TelemetryNext == TelemetryTick

SpecTelemetry == Init /\ [][TelemetryNext]_vars

(***************************************************************************)
(* C28: rewardActiveForLog is true after every iteration less than 130 s   *)
(* after the most recent grant, and every telemetry record emitted more    *)
(* than 130 s after the most recent grant (or with no grant before it)     *)
(* reports quiet_reward as false.                                          *)
(***************************************************************************)
C28_LogFlagWindow ==
  /\ (obs.rewards >= 1 /\ SinceGrant < REWARD_LOG_WINDOW_MS)
       => rewardActiveForLog
  /\ (ioObs.posted /\ (obs.rewards = 0 \/ SinceGrant > REWARD_LOG_WINDOW_MS))
       => ~ioObs.quiet_reward

(***************************************************************************)
(* C29: an iteration whose window is not Lesson leaves the colour zone,    *)
(* the streak timer, the cooldown and penalty deadlines, the above-good    *)
(* flag and rewardShowing unchanged.                                       *)
(***************************************************************************)
rewardState ==
  <<quietStartMs, rewardCooldownUntilMs, penaltyUntilMs, needsResetAboveGood,
    rewardShowing>>

C29_NothingChangesOutsideLesson ==
  [][(running' /\ lastWs' # LESSON) =>
       UNCHANGED <<currentZone, rewardState>>]_vars

(***************************************************************************)
(* Runs with the button: iterations five minutes apart from power-on, the  *)
(* button pressed or released on each (a press held over two iterations    *)
(* is the 20 s hold that wipes the Wi-Fi settings and restarts), the       *)
(* window a lesson or the break, the average exactly goodDb or just above. *)
(***************************************************************************)
HopTickMs   == 300000
MaxHopTicks == 8

HopInputs == {goodDb, goodDb + 5}

HopTick ==
  /\ Uptime < MaxHopTicks * Ms(HopTickMs)
  /\ \E clock \in Clocks :
       LET ws == getWindowState(clock[1], clock[2], clock[3])
       IN  \E b \in {HIGH, LOW}, avg \in HopInputs :
             LoopStep(Ms(HopTickMs), b, ws, avg)
  /\ UNCHANGED feedStartMs

HopNext == HopTick

SpecHollyHop == Init /\ [][HopNext]_vars

(***************************************************************************)
(* C30: Holly Hop ends.  After every iteration on which the device is in   *)
(* Holly Hop, less than 30 min have passed since the mode was entered,     *)
(* and if a second press has begun the exit, the exit stage is not over.   *)
(***************************************************************************)
SinceHopEntered ==
  Sub32(nowMs, Sub32(hollyHopEndAt, HOLLY_HOP_DURATION_MS))

SinceExitBegan == Sub32(nowMs, Sub32(hopStageUntil, HOP_STAGE_MS))

C30_HollyHopEnds ==
  (running /\ deviceMode = MODE_HOLLY_HOP) =>
    (/\ SinceHopEntered < HOLLY_HOP_DURATION_MS
     /\ hopPendingExit => SinceExitBegan < HOP_STAGE_MS)

(***************************************************************************)
(* Runs that remember how loud the last two minutes were.  aboveAgo is the *)
(* time since the most recent iteration (in any window, mode or sleep      *)
(* state) whose average was above goodDb, breakAgo the same for breakDb;   *)
(* both are -1 when there was no such iteration in the last 120 s.        *)
(* noisyAgo is the time since the most recent iteration that was not in a  *)
(* lesson or had an average of 30 dB or more (power-on counts as one), -1  *)
(* when there was none in the last 5 min.  In SpecStreak the iterations    *)
(* are half a minute apart as in SpecHalfMinute, with the same averages,   *)
(* windows and button, for five minutes.                                   *)
(***************************************************************************)
MaxStreakTicks == 10

Ago(ago, dt, loud, span) ==
  IF loud THEN 0
  ELSE IF ago = -1 \/ ago + dt >= span THEN -1
  ELSE ago + dt

LoopHistoryAt(dt, currentButtonState, ws, nowEpoch, avg) ==
  /\ running
  /\ Commit(loop([Globals EXCEPT !.nowEpoch = nowEpoch], Add32(nowMs, dt),
                 currentButtonState, ws, avg),
            Add32(nowMs, dt), avg)
  /\ ioObs' = [ioObs EXCEPT
       !.aboveAgo = Ago(@, dt, avg > goodDb, QUIET_REWARD_MS),
       !.breakAgo = Ago(@, dt, avg >= breakDb, QUIET_REWARD_MS),
       !.noisyAgo = Ago(@, dt, ws # LESSON \/ avg >= SLEEP_DB_THRESHOLD,
                        SILENCE_DURATION_MS)]
  /\ UNCHANGED <<schedVars, calls, micVars, statCall, ledVars, logVars>>

StreakIn(dt, ws) ==
  \E b \in Presses, avg \in HalfMinuteInputs :
    LoopHistoryAt(dt, b, ws, 0, avg)

StreakTick ==
  /\ Uptime < MaxStreakTicks * Ms(HalfTickMs)
  /\ \E clock \in Clocks :
       StreakIn(Ms(HalfTickMs), getWindowState(clock[1], clock[2], clock[3]))
  /\ UNCHANGED feedStartMs

StreakNext == StreakTick

SpecStreak == Init /\ [][StreakNext]_vars

(***************************************************************************)
(* C31: what a granted reward says about the two minutes before it.        *)
(***************************************************************************)
\* C31 as stated: whenever a reward is granted, the average was at or below
\* goodDb on every iteration of the preceding 120 s.
C31_QuietThroughoutStreak ==
  obs.granted => ioObs.aboveAgo = -1

\* C31 amended: whenever a reward is granted, the average is at or below
\* goodDb on the granting iteration and was below breakDb on every iteration
\* of the preceding 120 s.
C31_NoBreakThroughoutStreak ==
  obs.granted => (avgDB <= goodDb /\ ioObs.breakAgo = -1)

\* a reward granted after a streak with an iteration in the hover band
C31_Witness ==
  /\ obs.granted /\ ioObs.aboveAgo > 0 /\ ioObs.breakAgo = -1
  /\ avgDB <= goodDb

(***************************************************************************)
(* C32: two consecutive grants are at least 5 minutes apart (the 3 min     *)
(* cooldown, then a streak of 120 s), in runs in which the millisecond     *)
(* counter does not wrap.                                                  *)
(***************************************************************************)
MIN_GRANT_SPACING_MS == REWARD_COOLDOWN_MS + QUIET_REWARD_MS

C32_GrantsFiveMinutesApart ==
  [][(obs'.granted /\ obs.rewards >= 1) =>
       Sub32(nowMs', rewardStartMs) >= MIN_GRANT_SPACING_MS]_vars

\* the second reward of a lesson, as early as it can be: 4 min and 9 min
\* after the lesson began
C32_Witness ==
  /\ obs.granted /\ obs.rewards = 2 /\ lastWs = LESSON
  /\ SinceLessonBegan = MIN_LESSON_BEFORE_REWARD_MS + QUIET_REWARD_MS
                          + MIN_GRANT_SPACING_MS

(***************************************************************************)
(* C33: an iteration that reaches the reward logic with the average at or  *)
(* above spikeDb sets needsResetAboveGood; the flag is cleared only by an  *)
(* iteration that reaches the reward logic with goodDb < average <         *)
(* spikeDb; and while the flag is set, an iteration with the average at or *)
(* below goodDb leaves it set and grants no reward, however long ago the   *)
(* spike was.                                                              *)
(***************************************************************************)
ReachesRewardLogic ==
  /\ calObs'.op = "loop" /\ running' /\ lastWs' = LESSON /\ ~inSleepMode'
  /\ deviceMode' = MODE_NORMAL /\ ~rewardShowing
  /\ Sub32(nowMs', lessonStartMs') >= MIN_LESSON_BEFORE_REWARD_MS

LevelsApart(z1, z2) ==
  IF ZoneLevel(z1) >= ZoneLevel(z2)
  THEN ZoneLevel(z1) - ZoneLevel(z2)
  ELSE ZoneLevel(z2) - ZoneLevel(z1)

C34_FixedPointWithinThreeTicks ==
  hysCall.done =>
    (/\ LevelsApart(hysCall.zone, hysCall.next) <= 1
     /\ LevelsApart(hysCall.next, hysCall.again) <= 1
     /\ LevelsApart(hysCall.again, hysCall.third) <= 1
     /\ hysCall.fourth = hysCall.third
     /\ LevelsApart(hysCall.third, classifyZone(hysCall.dB)) <= 1)

\* from Red down to Green in three applications, and no sooner
C34_Witness ==
  /\ hysCall.done /\ hysCall.zone = Z_RED /\ hysCall.next = Z_DEEP
  /\ hysCall.again = Z_AMBER /\ hysCall.third = Z_GREEN
  /\ hysCall.fourth = Z_GREEN /\ classifyZone(hysCall.dB) = Z_GREEN

MaxSleepTicks == 8
MurmurDb      == 260

SleepInputs == {SilentDb, MurmurDb, QuietDb}
SleepEpochs == {MondayLesson, SaturdayAfter}

SleepTickAt(ws, nowEpoch) ==
  \E avg \in SleepInputs : LoopHistoryAt(Ms(TickMs), HIGH, ws, nowEpoch, avg)

SleepTick ==
  /\ Uptime < MaxSleepTicks * Ms(TickMs)
  /\ \E nowEpoch \in SleepEpochs :
       SleepTickAt(getWindowState(localtime(nowEpoch)[1],
                                  localtime(nowEpoch)[2],
                                  localtime(nowEpoch)[3]), nowEpoch)
  /\ UNCHANGED feedStartMs

SleepNext == SleepTick

SpecSleep == SamplingInit /\ [][SleepNext]_vars

(***************************************************************************)
(* The three parts of C36.                                                 *)
(***************************************************************************)
EntersSleepAfterFiveSilentMinutes ==
  [][(~inSleepMode /\ inSleepMode') => ioObs'.noisyAgo = -1]_vars

AsleepOnlyBelowWake == inSleepMode => avgDB < WAKE_DB_THRESHOLD

NothingWhileAsleep ==
  [][inSleepMode' => (~obs'.granted /\ ~calObs'.sampled)]_vars

\* C36: sleep mode is entered only by an iteration before which the last
\* 5 min were lesson iterations with the average below 30 dB; the device is
\* asleep after an iteration only if the average of that iteration is below
\* 23 dB; an iteration that leaves the device asleep grants no reward and
\* takes no calibration sample.
C36_SleepMode ==
  /\ EntersSleepAfterFiveSilentMinutes
  /\ []AsleepOnlyBelowWake
  /\ NothingWhileAsleep

====
